---------------------------- MODULE Spec2Model ----------------------------
(***************************************************************************)
(* Contract Intelligence API: the rule-based contract auditor              *)
(* (app/auditor.py), its evidence locator, the page table of               *)
(* app/pdf_extractor.py, the field extractor (app/extractor.py), the RAG   *)
(* answerer (app/rag.py) and the request handlers of app/main.py.          *)
(*                                                                         *)
(* Texts are TLA+ strings.  Offsets handed out by the code (char_start,    *)
(* char_end) are Python's 0-based offsets; SubSeq is 1-based, and the      *)
(* operators below convert where they index the text.                      *)
(***************************************************************************)
EXTENDS Integers, Sequences, FiniteSets, TLC

VARIABLES
    renewal_notice_threshold,  \* ContractAuditor.renewal_notice_threshold
    liability_threshold,       \* ContractAuditor.liability_threshold
    documents,                 \* table "documents": a sequence of rows
    document_pages,            \* table "document_pages"
    document_chunks,           \* table "document_chunks"
    extractions,               \* table "extractions"
    audit_findings,            \* table "audit_findings"
    metrics,                   \* table "metrics"
    requests,                  \* the handlers in progress: locals and position
    responses,                 \* the responses sent, in order
    args,                      \* the arguments of the call under study
    ret                        \* what the call returned (NoRet before it)

-----------------------------------------------------------------------------
(* Python values *)

\* Optional[x]: None is the empty tuple, a set value x is <<x>>.
None == << >>
Some(x) == << x >>

\* A dict literal {}.
EmptyDict == << >>

\* dict.get(k, default)
Get(d, k, default) == IF k \in DOMAIN d THEN d[k] ELSE default

\* seq[:k]
Take(seq, k) == SubSeq(seq, 1, IF Len(seq) < k THEN Len(seq) ELSE k)

Min(S) == CHOOSE x \in S : \A y \in S : x <= y
Max(S) == CHOOSE x \in S : \A y \in S : x >= y

-----------------------------------------------------------------------------
(* Characters and re.IGNORECASE *)

UpperToLower ==
    [c \in {"A","B","C","D","E","F","G","H","I","J","K","L","M","N","O","P",
            "Q","R","S","T","U","V","W","X","Y","Z"} |->
      CASE c = "A" -> "a" [] c = "B" -> "b" [] c = "C" -> "c" [] c = "D" -> "d"
        [] c = "E" -> "e" [] c = "F" -> "f" [] c = "G" -> "g" [] c = "H" -> "h"
        [] c = "I" -> "i" [] c = "J" -> "j" [] c = "K" -> "k" [] c = "L" -> "l"
        [] c = "M" -> "m" [] c = "N" -> "n" [] c = "O" -> "o" [] c = "P" -> "p"
        [] c = "Q" -> "q" [] c = "R" -> "r" [] c = "S" -> "s" [] c = "T" -> "t"
        [] c = "U" -> "u" [] c = "V" -> "v" [] c = "W" -> "w" [] c = "X" -> "x"
        [] c = "Y" -> "y" [] c = "Z" -> "z"]

LowerChar(c) == IF c \in DOMAIN UpperToLower THEN UpperToLower[c] ELSE c

\* str.lower(), half by half.
RECURSIVE ToLower(_)
ToLower(t) ==
    IF Len(t) = 0 THEN ""
    ELSE IF Len(t) = 1 THEN LowerChar(t)
    ELSE LET h == Len(t) \div 2
         IN  ToLower(SubSeq(t, 1, h)) \o ToLower(SubSeq(t, h + 1, Len(t)))

\* The character of t at 0-based offset o.
CharAt(t, o) == SubSeq(t, o + 1, o + 1)

\* \s of a Python str pattern, over the characters the texts here use.
IsSpace(c) == c \in {" ", "\t", "\n", "\r"}

\* 0-based offsets of the line breaks of t: "." matches any character but "\n".
Newlines(t) == {o \in 0..(Len(t) - 1) : CharAt(t, o) = "\n"}

-----------------------------------------------------------------------------
(* re.search over the pattern shapes the auditor uses.                      *)
(* A pattern is a sequence of elements: Lit(w) a literal, Alt(S) one of     *)
(* the literals of S, WsPlus is \s+, DotStar is .* (no DOTALL).  Matching   *)
(* is case-insensitive: the text is lower-cased and the literals are        *)
(* written in lower case.                                                   *)

Lit(w) == [k |-> "alt", alts |-> {w}]
Alt(S) == [k |-> "alt", alts |-> S]
WsPlus == [k |-> "ws+", alts |-> {}]
DotStar == [k |-> "any*", alts |-> {}]

\* The 1-based positions the text cursor can be at after element e has
\* matched starting from some position of S; lt is the lower-cased text.
AfterElem(lt, e, S) ==
    LET n == Len(lt)
        NL == {q \in 1..n : SubSeq(lt, q, q) = "\n"}
    IN  CASE e.k = "alt" ->
               {i + Len(w) : <<i, w>> \in
                   {p \in S \X e.alts :
                       /\ p[1] + Len(p[2]) - 1 <= n
                       /\ SubSeq(lt, p[1], p[1] + Len(p[2]) - 1) = p[2]}}
          [] e.k = "ws+" ->
               {j \in 2..(n + 1) : \E i \in S :
                   /\ i < j
                   /\ \A q \in i..(j - 1) : IsSpace(SubSeq(lt, q, q))}
          [] e.k = "any*" ->
               {j \in 1..(n + 1) : \E i \in S :
                   /\ i <= j
                   /\ \A q \in NL : q < i \/ q >= j}

RECURSIVE AfterPattern(_, _, _, _)
AfterPattern(lt, pat, idx, S) ==
    IF idx > Len(pat) \/ S = {} THEN S
    ELSE AfterPattern(lt, pat, idx + 1, AfterElem(lt, pat[idx], S))

\* re.search(pattern, text, re.IGNORECASE) is not None
re_search(pat, text) ==
    LET lt == ToLower(text)
    IN  AfterPattern(lt, pat, 1, 1..(Len(lt) + 1)) # {}

-----------------------------------------------------------------------------
(* Evidence locator: ContractAuditor._find_evidence *)

\* The context the pattern '.{0,100}<keyword>.{0,100}' allows on each side.
ContextChars == 100

NoMatch == [start |-> -1, end |-> -1]

\* MatchFrom with a trailing context of one character more.
MatchFromLongTail(lt, lkw, pos) ==
    LET n == Len(lt)
        L == Len(lkw)
        NL == Newlines(lt)
        Occ == {p \in pos..(n - L) : SubSeq(lt, p + 1, p + L) = lkw}
        Reach(s, p) == /\ s <= p
                       /\ p <= s + ContextChars
                       /\ \A q \in NL : q < s \/ q >= p
        Starts == {s \in pos..n : \E p \in Occ : Reach(s, p)}
    IN  IF Starts = {} THEN NoMatch
        ELSE LET s == Min(Starts)
                 p == Max({q \in Occ : Reach(s, q)})
                 e == Min({n, p + L + ContextChars + 1}
                            \cup {q \in NL : q >= p + L})
             IN  [start |-> s, end |-> e]

\* The first match of '.{0,100}<keyword>.{0,100}' at or after 0-based offset
\* pos, as finditer finds it: the leftmost start from which the keyword can
\* be reached through at most ContextChars characters of one line; from that
\* start the leading context is greedy (the last reachable occurrence), and
\* so is the trailing context (to the line's end, the text's end, or
\* ContextChars characters).  lt, lkw: lower-cased text and keyword.
MatchFrom(lt, lkw, pos) ==
    LET n == Len(lt)
        L == Len(lkw)
        NL == Newlines(lt)
        Occ == {p \in pos..(n - L) : SubSeq(lt, p + 1, p + L) = lkw}
        Reach(s, p) == /\ s <= p
                       /\ p <= s + ContextChars
                       /\ \A q \in NL : q < s \/ q >= p
        Starts == {s \in pos..n : \E p \in Occ : Reach(s, p)}
    IN  IF Starts = {} THEN NoMatch
        ELSE LET s == Min(Starts)
                 p == Max({q \in Occ : Reach(s, q)})
                 e == Min({n, p + L + ContextChars}
                            \cup {q \in NL : q >= p + L})
             IN  [start |-> s, end |-> e]

\* list(pattern.finditer(full_text)): the non-overlapping matches, in order.
RECURSIVE FindIter(_, _, _)
FindIter(lt, lkw, pos) ==
    LET m == MatchFrom(lt, lkw, pos)
    IN  IF m = NoMatch THEN << >>
        ELSE << m >> \o FindIter(lt, lkw, m.end)

\* PageOf with the page's end taken as inclusive.
PageOfEndInclusive(pages_data, char_start) ==
    LET hits == {i \in 1..Len(pages_data) :
                    /\ pages_data[i].char_start <= char_start
                    /\ char_start <= pages_data[i].char_end}
    IN  IF hits = {} THEN 1 ELSE pages_data[Min(hits)].page_number

\* The page of a span: the first page, in table order, that contains its
\* first character; page 1 when none does.
PageOf(pages_data, char_start) ==
    LET hits == {i \in 1..Len(pages_data) :
                    /\ pages_data[i].char_start <= char_start
                    /\ char_start < pages_data[i].char_end}
    IN  IF hits = {} THEN 1 ELSE pages_data[Min(hits)].page_number

EvidenceSpan(full_text, pages_data, m) ==
    [page |-> PageOf(pages_data, m.start),
     char_start |-> m.start,
     char_end |-> m.end,
     excerpt |-> SubSeq(full_text, m.start + 1, m.end)]

\* The spans of one keyword: matches[:2], each with its page.
KeywordEvidence(full_text, pages_data, keyword) ==
    LET matches == FindIter(ToLower(full_text), ToLower(keyword), 0)
        first2 == Take(matches, 2)
    IN  [i \in 1..Len(first2) |-> EvidenceSpan(full_text, pages_data, first2[i])]

\* EvidenceLoop without its break: every keyword's spans are collected.
RECURSIVE EvidenceLoopNoBreak(_, _, _, _)
EvidenceLoopNoBreak(full_text, pages_data, keywords, idx) ==
    IF idx > Len(keywords) THEN << >>
    ELSE KeywordEvidence(full_text, pages_data, keywords[idx])
           \o EvidenceLoopNoBreak(full_text, pages_data, keywords, idx + 1)

\* The for loop over the keywords, from keyword idx on: it breaks at the
\* first keyword that has left evidence.
RECURSIVE EvidenceLoop(_, _, _, _)
EvidenceLoop(full_text, pages_data, keywords, idx) ==
    IF idx > Len(keywords) THEN << >>
    ELSE LET evidence == KeywordEvidence(full_text, pages_data, keywords[idx])
         IN  IF evidence # << >> THEN evidence
             ELSE EvidenceLoop(full_text, pages_data, keywords, idx + 1)

_find_evidence(full_text, pages_data, keywords) ==
    Take(EvidenceLoop(full_text, pages_data, keywords, 1), 3)

-----------------------------------------------------------------------------
(* Contract auditor: app/auditor.py *)

\* f"{n:03d}"
Pad3(n) ==
    IF n < 10 THEN "00" \o ToString(n)
    ELSE IF n < 100 THEN "0" \o ToString(n)
    ELSE ToString(n)

\* f"{n:,.0f}" of a whole number: groups of three digits, comma-separated.
RECURSIVE Thousands(_)
Thousands(n) ==
    IF n < 1000 THEN ToString(n)
    ELSE Thousands(n \div 1000) \o "," \o Pad3(n % 1000)

\* An id that counts from two.
FindingIdFromTwo(findings) == "FIND-" \o Pad3(Len(findings) + 2)

\* f"FIND-{len(findings)+1:03d}", findings being the list the id is built for.
FindingId(findings) == "FIND-" \o Pad3(Len(findings) + 1)

AuditFinding(id, severity, type, summary, evidence) ==
    [id |-> id, severity |-> severity, type |-> type, summary |-> summary,
     evidence |-> evidence]

\* Truth value of an Optional number: None and 0 are false.
TruthyNumber(o) == o # None /\ o[1] # 0

\* Truth value of an Optional dict: None and {} are false.
TruthyDict(o) == o # None /\ DOMAIN o[1] # {}

\* extraction_data.get(key, {}) is a dict whose "exists" entry is true.
\* (auto_renewal and indemnity are stored as dicts, never as None.)
Exists(extraction_data, key) ==
    LET d == Get(extraction_data, key, EmptyDict)
    IN  "exists" \in DOMAIN d /\ d["exists"]

_check_auto_renewal(full_text, extraction_data, pages_data, threshold) ==
    LET findings == << >>
        auto_renewal == Get(extraction_data, "auto_renewal", EmptyDict)
        notice_days == Get(auto_renewal, "notice_period_days", None)
        evidence == _find_evidence(full_text, pages_data,
                                  <<"auto-renew", "automatic renewal">>)
    IN  IF Exists(extraction_data, "auto_renewal")
        THEN IF TruthyNumber(notice_days) /\ notice_days[1] < threshold
             THEN Append(findings, AuditFinding(FindingId(findings), "HIGH",
                    "auto_renewal",
                    "Auto-renewal with " \o ToString(notice_days[1])
                        \o " days notice (less than " \o ToString(threshold)
                        \o " days)",
                    evidence))
             ELSE IF ~TruthyNumber(notice_days)
                  THEN Append(findings, AuditFinding(FindingId(findings),
                         "HIGH", "auto_renewal",
                         "Auto-renewal clause with unclear notice period",
                         evidence))
                  ELSE findings
        ELSE findings

unlimited_patterns ==
    << <<Lit("unlimited"), WsPlus, Lit("liability")>>,
       <<Lit("liability"), DotStar, Lit("without"), WsPlus, Lit("limit")>>,
       <<Lit("no"), WsPlus, Lit("limitation"), WsPlus, Lit("on"), WsPlus,
         Lit("liability")>> >>

\* The loop "for pattern in patterns: if re.search(...): ...; break" is
\* entered at its body exactly when some pattern matches.
AnyMatch(patterns, full_text) ==
    \E i \in 1..Len(patterns) : re_search(patterns[i], full_text)

\* _check_unlimited_liability whose missing-cap branch does not look at
\* what the pattern loop found.
UnlimitedLiabilityNoShortCircuit(full_text, extraction_data, pages_data) ==
    LET liability_cap == Get(extraction_data, "liability_cap", None)
        findings == << >>
        after_loop ==
            IF AnyMatch(unlimited_patterns, full_text)
            THEN Append(findings, AuditFinding(FindingId(findings), "HIGH",
                   "unlimited_liability",
                   "Contract contains unlimited liability clause",
                   _find_evidence(full_text, pages_data,
                                  <<"unlimited liability", "without limit">>)))
            ELSE findings
    IN  IF ~TruthyDict(liability_cap)
           /\ re_search(<<Lit("liability")>>, full_text)
        THEN Append(after_loop, AuditFinding(FindingId(after_loop), "HIGH",
               "unlimited_liability",
               "No liability cap specified in contract",
               Take(_find_evidence(full_text, pages_data, <<"liability">>), 1)))
        ELSE after_loop

_check_unlimited_liability(full_text, extraction_data, pages_data) ==
    LET liability_cap == Get(extraction_data, "liability_cap", None)
        findings == << >>
        after_loop ==
            IF AnyMatch(unlimited_patterns, full_text)
            THEN Append(findings, AuditFinding(FindingId(findings), "HIGH",
                   "unlimited_liability",
                   "Contract contains unlimited liability clause",
                   _find_evidence(full_text, pages_data,
                                 <<"unlimited liability", "without limit">>)))
            ELSE findings
    IN  IF ~TruthyDict(liability_cap) /\ after_loop = << >>
           /\ re_search(<<Lit("liability")>>, full_text)
        THEN Append(after_loop, AuditFinding(FindingId(after_loop), "HIGH",
               "unlimited_liability",
               "No liability cap specified in contract",
               Take(_find_evidence(full_text, pages_data, <<"liability">>), 1)))
        ELSE after_loop

broad_patterns ==
    << <<Lit("indemnif"), Alt({"y", "ication"}), DotStar, Lit("all"), WsPlus,
         Lit("claims")>>,
       <<Lit("indemnif"), Alt({"y", "ication"}), DotStar, Lit("any"), WsPlus,
         Lit("and"), WsPlus, Lit("all")>>,
       <<Lit("hold"), WsPlus, Lit("harmless"), DotStar, Lit("all"), WsPlus,
         Lit("claims")>> >>

\* _check_broad_indemnity without the indemnity.exists gate.
BroadIndemnityUngated(full_text, extraction_data, pages_data) ==
    LET findings == << >>
    IN  IF AnyMatch(broad_patterns, full_text)
        THEN Append(findings, AuditFinding(FindingId(findings), "MEDIUM",
               "broad_indemnity",
               "Indemnity clause covers broad scope (all claims)",
               _find_evidence(full_text, pages_data,
                              <<"indemnif", "hold harmless">>)))
        ELSE findings

_check_broad_indemnity(full_text, extraction_data, pages_data) ==
    LET findings == << >>
    IN  IF Exists(extraction_data, "indemnity")
           /\ AnyMatch(broad_patterns, full_text)
        THEN Append(findings, AuditFinding(FindingId(findings), "MEDIUM",
               "broad_indemnity",
               "Indemnity clause covers broad scope (all claims)",
               _find_evidence(full_text, pages_data,
                             <<"indemnif", "hold harmless">>)))
        ELSE findings

convenience_patterns ==
    << <<Lit("terminat"), Alt({"e", "ion"}), DotStar, Lit("for"), WsPlus,
         Lit("convenience")>>,
       <<Lit("terminat"), Alt({"e", "ion"}), DotStar, Lit("without"), WsPlus,
         Lit("cause")>>,
       <<Lit("either"), WsPlus, Lit("party"), WsPlus, Lit("may"), WsPlus,
         Lit("terminat"), Alt({"e", "ion"})>> >>

\* _check_termination_convenience with all() for any().
TerminationConvenienceAll(full_text, pages_data) ==
    LET findings == << >>
        has_convenience ==
            \A i \in 1..Len(convenience_patterns) :
                re_search(convenience_patterns[i], full_text)
    IN  IF ~has_convenience
        THEN Append(findings, AuditFinding(FindingId(findings), "MEDIUM",
               "missing_termination_convenience",
               "Contract lacks termination for convenience clause",
               Take(_find_evidence(full_text, pages_data, <<"terminat">>), 1)))
        ELSE findings

_check_termination_convenience(full_text, pages_data) ==
    LET findings == << >>
        has_convenience == AnyMatch(convenience_patterns, full_text)
    IN  IF ~has_convenience
        THEN Append(findings, AuditFinding(FindingId(findings), "MEDIUM",
               "missing_termination_convenience",
               "Contract lacks termination for convenience clause",
               Take(_find_evidence(full_text, pages_data, <<"terminat">>), 1)))
        ELSE findings

\* Amounts are whole numbers here (the extractor's pattern captures digits
\* and commas only), so ":,.0f" formats without rounding.
_check_liability_cap(full_text, extraction_data, pages_data, threshold) ==
    LET findings == << >>
        liability_cap == Get(extraction_data, "liability_cap", None)
        amount == IF TruthyDict(liability_cap)
                  THEN Get(liability_cap[1], "amount", None)
                  ELSE None
    IN  IF TruthyDict(liability_cap) /\ TruthyNumber(amount)
           /\ amount[1] < threshold
        THEN Append(findings, AuditFinding(FindingId(findings), "LOW",
               "low_liability_cap",
               "Liability cap $" \o Thousands(amount[1])
                   \o " is below recommended threshold $"
                   \o Thousands(threshold),
               _find_evidence(full_text, pages_data, <<"liability", "limit">>)))
        ELSE findings

\* audit_contract with the liability-cap check run first.
AuditCapFirst(full_text, extraction_data, pages_data, notice_t, liability_t) ==
    _check_liability_cap(full_text, extraction_data, pages_data, liability_t)
      \o _check_auto_renewal(full_text, extraction_data, pages_data, notice_t)
      \o _check_unlimited_liability(full_text, extraction_data, pages_data)
      \o _check_broad_indemnity(full_text, extraction_data, pages_data)
      \o _check_termination_convenience(full_text, pages_data)

\* ContractAuditor.audit_contract: the five checks, in this order.
audit_contract(full_text, extraction_data, pages_data, notice_t, liability_t) ==
    _check_auto_renewal(full_text, extraction_data, pages_data, notice_t)
      \o _check_unlimited_liability(full_text, extraction_data, pages_data)
      \o _check_broad_indemnity(full_text, extraction_data, pages_data)
      \o _check_termination_convenience(full_text, pages_data)
      \o _check_liability_cap(full_text, extraction_data, pages_data, liability_t)

-----------------------------------------------------------------------------
(* Page table: PDFExtractor.extract_text_from_pdf *)

\* The loop over the pages of a PDF, given as the sequence of its pages'
\* texts (page.get_text()): the state after the first k pages.
RECURSIVE PdfLoop(_, _)
PdfLoop(page_texts, k) ==
    IF k = 0
    THEN [full_text |-> "", pages_data |-> << >>, char_offset |-> 0]
    ELSE LET before == PdfLoop(page_texts, k - 1)
             page_text == page_texts[k]
             char_start == before.char_offset
             char_end == before.char_offset + Len(page_text)
         IN  [full_text |-> before.full_text \o page_text,
              pages_data |-> Append(before.pages_data,
                  [page_number |-> (k - 1) + 1, text |-> page_text,
                   char_start |-> char_start, char_end |-> char_end]),
              char_offset |-> char_end]

extract_text_from_pdf(page_texts) ==
    LET final == PdfLoop(page_texts, Len(page_texts))
    IN  [full_text |-> final.full_text, pages_data |-> final.pages_data,
         page_count |-> Len(page_texts)]

\* Python's str.strip() leaves nothing of the text.
Blank(t) == \A o \in 0..(Len(t) - 1) : IsSpace(CharAt(t, o))

\* chunk_text's defaults.
chunk_size == 1000
overlap == 200

\* The while loop of chunk_text over one page, from offset start on.
RECURSIVE ChunkLoop(_, _, _, _)
ChunkLoop(page_data, start, size, lap) ==
    LET page_text == page_data.text
        end == Min({start + size, Len(page_text)})
        chunk == SubSeq(page_text, start + 1, end)
        here == IF ~Blank(chunk)
                THEN << [chunk_text |-> chunk,
                         page_number |-> page_data.page_number,
                         char_start |-> page_data.char_start + start,
                         char_end |-> page_data.char_start + end] >>
                ELSE << >>
    IN  IF ~(start < Len(page_text)) THEN << >>
        ELSE IF end >= Len(page_text) THEN here
        ELSE here \o ChunkLoop(page_data, end - lap, size, lap)

RECURSIVE ChunkPages(_, _, _, _)
ChunkPages(pages_data, k, size, lap) ==
    IF k > Len(pages_data) THEN << >>
    ELSE ChunkLoop(pages_data[k], 0, size, lap)
           \o ChunkPages(pages_data, k + 1, size, lap)

chunk_text(text, pages_data, size, lap) == ChunkPages(pages_data, 1, size, lap)

-----------------------------------------------------------------------------
(* Regular expressions of the field extractor, matched as Python's re      *)
(* matches them: by backtracking, the alternatives of a choice in order,   *)
(* a greedy repetition from its longest run down and a lazy one from its   *)
(* shortest up, so that the groups of the first match found are the groups *)
(* re reports.  A pattern is a sequence of elements.                       *)

Unbounded == -1

RxElem(k, w, set, neg, min, max, greedy, subs, g) ==
    [k |-> k, w |-> w, set |-> set, neg |-> neg, min |-> min, max |-> max,
     greedy |-> greedy, subs |-> subs, g |-> g]

\* A literal string.
RxLit(w) == RxElem("lit", w, {}, FALSE, 0, 0, TRUE, << >>, 0)
\* min to max characters of a set (or of its complement).
RxCls(set, min, max) == RxElem("cls", "", set, FALSE, min, max, TRUE, << >>, 0)
RxLazy(set, min, max) == RxElem("cls", "", set, FALSE, min, max, FALSE, << >>, 0)
RxNot(set, min, max) == RxElem("cls", "", set, TRUE, min, max, TRUE, << >>, 0)
RxNotLazy(set, min, max) ==
    RxElem("cls", "", set, TRUE, min, max, FALSE, << >>, 0)
\* (?:a|b|...): the sub-patterns in order.
RxOr(subs) == RxElem("or", "", {}, FALSE, 0, 0, TRUE, subs, 0)
\* (?:a)?
RxOpt(sub) == RxOr(<< sub, << >> >>)
\* One of the literals, in order.
RxAny(words) == RxOr([i \in 1..Len(words) |-> << RxLit(words[i]) >>])
\* The parentheses of capturing group g.
RxOpen(g) == RxElem("open", "", {}, FALSE, 0, 0, TRUE, << >>, g)
RxClose(g) == RxElem("close", "", {}, FALSE, 0, 0, TRUE, << >>, g)

Digits == {"0", "1", "2", "3", "4", "5", "6", "7", "8", "9"}
UpperCase == DOMAIN UpperToLower
LowerCase == {UpperToLower[c] : c \in UpperCase}
Letters == UpperCase \cup LowerCase
Spaces == {" ", "\t", "\n", "\r"}

RxFail == [ok |-> FALSE, start |-> -1, end |-> -1, caps |-> << >>]

\* No group has taken part in the match yet.
NoCaps == [g \in 1..3 |-> [from |-> -1, to |-> -1]]

RxIn(e, c) == IF e.neg THEN c \notin e.set ELSE c \in e.set

\* How many characters of the element's set stand in a row from offset lo
\* on, before offset hi; counted half by half.
RECURSIVE RxRunIn(_, _, _, _)
RxRunIn(mt, e, lo, hi) ==
    IF lo >= hi THEN 0
    ELSE IF hi = lo + 1 THEN (IF RxIn(e, CharAt(mt, lo)) THEN 1 ELSE 0)
    ELSE LET mid == (lo + hi) \div 2
             left == RxRunIn(mt, e, lo, mid)
         IN  IF left < mid - lo THEN left
             ELSE left + RxRunIn(mt, e, mid, hi)

\* How many characters of the element's set stand at offset pos, up to cap.
RxRun(mt, e, pos, cap) ==
    RxRunIn(mt, e, pos, IF pos + cap < Len(mt) THEN pos + cap ELSE Len(mt))

\* The match of pat from element idx on, at offset pos of the text mt;
\* stack holds the patterns to go on with once pat is through.
RECURSIVE RxWalk(_, _, _, _, _, _)
RECURSIVE RxCount(_, _, _, _, _, _, _, _)
RECURSIVE RxChoice(_, _, _, _, _, _, _)

RxWalk(mt, pat, idx, pos, caps, stack) ==
    IF idx > Len(pat)
    THEN IF stack = << >>
         THEN [ok |-> TRUE, start |-> -1, end |-> pos, caps |-> caps]
         ELSE RxWalk(mt, stack[1].pat, stack[1].idx, pos, caps, Tail(stack))
    ELSE LET e == pat[idx]
         IN  CASE e.k = "lit" ->
                    IF pos + Len(e.w) <= Len(mt)
                       /\ SubSeq(mt, pos + 1, pos + Len(e.w)) = e.w
                    THEN RxWalk(mt, pat, idx + 1, pos + Len(e.w), caps, stack)
                    ELSE RxFail
               [] e.k = "cls" ->
                    LET run == RxRun(mt, e, pos,
                                     IF e.max = Unbounded THEN Len(mt) ELSE e.max)
                    IN  IF run < e.min THEN RxFail
                        ELSE RxCount(mt, pat, idx, pos, caps, stack, e.min, run)
               [] e.k = "or" -> RxChoice(mt, pat, idx, pos, caps, stack, 1)
               [] e.k = "open" ->
                    RxWalk(mt, pat, idx + 1, pos,
                           [caps EXCEPT ![e.g] = [from |-> pos, to |-> -1]],
                           stack)
               [] e.k = "close" ->
                    RxWalk(mt, pat, idx + 1, pos,
                           [caps EXCEPT ![e.g].to = pos], stack)

\* The repetition pat[idx] taking lo to hi characters: a greedy one tries
\* the counts from hi down, a lazy one from lo up, and the first count that
\* lets the rest match is taken.  The counts are tried half by half.
RxCount(mt, pat, idx, pos, caps, stack, lo, hi) ==
    IF lo = hi THEN RxWalk(mt, pat, idx + 1, pos + lo, caps, stack)
    ELSE LET mid == (lo + hi) \div 2
             lower == RxCount(mt, pat, idx, pos, caps, stack, lo, mid)
             upper == RxCount(mt, pat, idx, pos, caps, stack, mid + 1, hi)
         IN  IF pat[idx].greedy
             THEN (IF upper.ok THEN upper ELSE lower)
             ELSE (IF lower.ok THEN lower ELSE upper)

\* The choice pat[idx] taking its a-th alternative, then the ones after it.
RxChoice(mt, pat, idx, pos, caps, stack, a) ==
    IF a > Len(pat[idx].subs) THEN RxFail
    ELSE LET r == RxWalk(mt, pat[idx].subs[a], 1, pos, caps,
                         << [pat |-> pat, idx |-> idx + 1] >> \o stack)
         IN  IF r.ok THEN r
             ELSE RxChoice(mt, pat, idx, pos, caps, stack, a + 1)

\* re.search from offset from on: the match at the leftmost start.
RxSearch(mt, pat, from) ==
    LET hits == {s \in from..Len(mt) :
                    RxWalk(mt, pat, 1, s, NoCaps, << >>).ok}
    IN  IF hits = {} THEN RxFail
        ELSE [RxWalk(mt, pat, 1, Min(hits), NoCaps, << >>)
                EXCEPT !.start = Min(hits)]

\* match.group(g) of a match m in the text t; None when the group took no
\* part.  match.group(0) is the whole match.
RxGroup(t, m, g) ==
    IF g = 0 THEN Some(SubSeq(t, m.start + 1, m.end))
    ELSE IF m.caps[g].to = -1 THEN None
    ELSE Some(SubSeq(t, m.caps[g].from + 1, m.caps[g].to))

\* re.finditer: the matches one after another, each sought from the end of
\* the one before.
RECURSIVE RxFindIter(_, _, _)
RxFindIter(mt, pat, from) ==
    LET m == RxSearch(mt, pat, from)
    IN  IF ~m.ok THEN << >>
        ELSE << m >> \o RxFindIter(mt, pat,
                                   IF m.end > m.start THEN m.end ELSE m.end + 1)

-----------------------------------------------------------------------------
(* Field extractor: FieldExtractor (app/extractor.py).  Patterns compiled  *)
(* with re.IGNORECASE are written in lower case and matched against the    *)
(* lower-cased text; the groups are cut from the text itself.              *)

\* str.strip()
Strip(t) ==
    LET keep == {i \in 1..Len(t) : ~IsSpace(SubSeq(t, i, i))}
    IN  IF keep = {} THEN "" ELSE SubSeq(t, Min(keep), Max(keep))

\* text[-k:]
LastChars(t, k) == IF Len(t) <= k THEN t ELSE SubSeq(t, Len(t) - k + 1, Len(t))

\* keyword in text
Contains(t, w) == \E o \in 0..(Len(t) - Len(w)) : SubSeq(t, o + 1, o + Len(w)) = w

DigitValue(c) ==
    CASE c = "0" -> 0 [] c = "1" -> 1 [] c = "2" -> 2 [] c = "3" -> 3
      [] c = "4" -> 4 [] c = "5" -> 5 [] c = "6" -> 6 [] c = "7" -> 7
      [] c = "8" -> 8 [] c = "9" -> 9

\* int() / float() of a string of decimal digits.
RECURSIVE ParseDigits(_)
ParseDigits(w) ==
    IF w = "" THEN 0
    ELSE 10 * ParseDigits(SubSeq(w, 1, Len(w) - 1))
           + DigitValue(SubSeq(w, Len(w), Len(w)))

\* str.replace(c, ''), for a single character c.
RECURSIVE Without(_, _)
Without(w, c) ==
    IF w = "" THEN ""
    ELSE (IF SubSeq(w, 1, 1) = c THEN "" ELSE SubSeq(w, 1, 1))
           \o Without(SubSeq(w, 2, Len(w)), c)

Ws1 == RxCls(Spaces, 1, Unbounded)      \* \s+
Ws0 == RxCls(Spaces, 0, Unbounded)      \* \s*
ColonWs == RxCls(Spaces \cup {":"}, 1, Unbounded)      \* [:\s]+
PartyChars == LowerCase \cup Spaces \cup {"&", ".", ","}
\* ([A-Z][A-Za-z\s&.,]+?) and ([A-Z][A-Za-z\s&.,]+), under IGNORECASE
PartyLazy == << RxOpen(1), RxCls(LowerCase, 1, 1),
                RxLazy(PartyChars, 1, Unbounded), RxClose(1) >>
PartyGreedy == << RxOpen(1), RxCls(LowerCase, 1, 1),
                  RxCls(PartyChars, 1, Unbounded), RxClose(1) >>

party_patterns ==
    << << RxLit("between"), Ws1 >> \o PartyLazy
          \o << Ws1, RxAny(<<"and", ",">>) >>,
       << RxLit("by and between"), Ws1 >> \o PartyLazy
          \o << RxOr(<< << Ws1, RxLit("and") >>, << Ws0, RxLit(",") >> >>) >>,
       << RxLit("party"), Ws1, RxCls(LowerCase, 1, 1), RxLit(":"), Ws0 >>
          \o PartyGreedy,
       << RxLit("\"") >> \o PartyLazy
          \o << RxLit("\""), Ws0, RxLit("("), RxAny(<<"hereinafter", "the">>),
                Ws1, RxLit("\""), RxAny(<<"company", "client", "vendor">>) >> >>

\* The inner loop of _extract_parties over the matches of one pattern.
RECURSIVE PartiesOfMatches(_, _, _, _)
PartiesOfMatches(text, matches, k, parties) ==
    IF k > Len(matches) THEN parties
    ELSE LET party == Strip(RxGroup(text, matches[k], 1)[1])
             seen == \E i \in 1..Len(parties) : parties[i] = party
         IN  PartiesOfMatches(text, matches, k + 1,
                 IF Len(party) > 3 /\ ~seen THEN Append(parties, party)
                 ELSE parties)

\* The outer loop over the patterns, from pattern k on.
RECURSIVE PartiesOfPatterns(_, _, _)
PartiesOfPatterns(text, k, parties) ==
    IF k > Len(party_patterns) THEN parties
    ELSE PartiesOfPatterns(text, k + 1,
            PartiesOfMatches(text,
                RxFindIter(ToLower(text), party_patterns[k], 0), 1, parties))

_extract_parties(text) == Take(PartiesOfPatterns(Take(text, 2000), 1, << >>), 10)

DateWords ==      \* ([A-Za-z]+\s+\d{1,2},?\s+\d{4})
    << RxOpen(1), RxCls(LowerCase, 1, Unbounded), Ws1, RxCls(Digits, 1, 2),
       RxCls({","}, 0, 1), Ws1, RxCls(Digits, 4, 4), RxClose(1) >>

date_patterns ==
    << << RxLit("effective"), Ws1,
          RxOr(<< << RxLit("date") >>, << RxLit("as"), Ws1, RxLit("of") >> >>),
          ColonWs >> \o DateWords,
       << RxLit("dated"), Ws1,
          RxOpt(<< RxLit("as"), Ws1, RxLit("of"), Ws1 >>) >> \o DateWords,
       << RxOpen(1), RxCls(Digits, 1, 2), RxLit("/"), RxCls(Digits, 1, 2),
          RxLit("/"), RxCls(Digits, 4, 4), RxClose(1) >>,
       << RxOpen(1), RxCls(Digits, 4, 4), RxLit("-"), RxCls(Digits, 2, 2),
          RxLit("-"), RxCls(Digits, 2, 2), RxClose(1) >> >>

\* The directives of datetime.strptime, as the regular expressions it
\* compiles them to; group 1 takes the month, 2 the day, 3 the year.
MonthNames ==
    << "september", "february", "november", "december", "january", "october",
       "august", "march", "april", "june", "july", "may" >>
MonthNumbers == << 9, 2, 11, 12, 1, 10, 8, 3, 4, 6, 7, 5 >>
NonZero == Digits \ {"0"}
DirB == << RxOpen(1), RxAny(MonthNames), RxClose(1) >>
DirM ==      \* 1[0-2]|0[1-9]|[1-9]
    << RxOpen(1),
       RxOr(<< << RxLit("1"), RxCls({"0", "1", "2"}, 1, 1) >>,
               << RxLit("0"), RxCls(NonZero, 1, 1) >>,
               << RxCls(NonZero, 1, 1) >> >>),
       RxClose(1) >>
DirD ==      \* 3[0-1]|[1-2]\d|0[1-9]|[1-9]| [1-9]
    << RxOpen(2),
       RxOr(<< << RxLit("3"), RxCls({"0", "1"}, 1, 1) >>,
               << RxCls({"1", "2"}, 1, 1), RxCls(Digits, 1, 1) >>,
               << RxLit("0"), RxCls(NonZero, 1, 1) >>,
               << RxCls(NonZero, 1, 1) >>,
               << RxLit(" "), RxCls(NonZero, 1, 1) >> >>),
       RxClose(2) >>
DirY == << RxOpen(3), RxCls(Digits, 4, 4), RxClose(3) >>

\* "%B %d, %Y", "%B %d %Y", "%m/%d/%Y", "%Y-%m-%d", "%d %B %Y", "%d-%m-%Y":
\* a blank of the format stands for \s+.
formats ==
    << DirB \o << Ws1 >> \o DirD \o << RxLit(","), Ws1 >> \o DirY,
       DirB \o << Ws1 >> \o DirD \o << Ws1 >> \o DirY,
       DirM \o << RxLit("/") >> \o DirD \o << RxLit("/") >> \o DirY,
       DirY \o << RxLit("-") >> \o DirM \o << RxLit("-") >> \o DirD,
       DirD \o << Ws1 >> \o DirB \o << Ws1 >> \o DirY,
       DirD \o << RxLit("-") >> \o DirM \o << RxLit("-") >> \o DirY >>

IsLeap(y) == y % 4 = 0 /\ (y % 100 # 0 \/ y % 400 = 0)
DaysIn(y, m) ==
    IF m = 2 THEN (IF IsLeap(y) THEN 29 ELSE 28)
    ELSE IF m \in {4, 6, 9, 11} THEN 30 ELSE 31

Pad2(n) == IF n < 10 THEN "0" \o ToString(n) ELSE ToString(n)

\* datetime.strptime(date_str, fmt).strftime("%Y-%m-%d"), None standing for
\* the ValueError: the expression has to match from the start and to use the
\* string up, and the day has to exist.  %Y prints the year without leading
\* zeros, as the C library of the build does.
StrpStrf(date_str, fmt) ==
    LET ls == ToLower(date_str)
        m == RxWalk(ls, fmt, 1, 0, NoCaps, << >>)
        word == RxGroup(ls, m, 1)[1]
        named == {i \in 1..Len(MonthNames) : MonthNames[i] = word}
        month == IF named # {} THEN MonthNumbers[CHOOSE i \in named : TRUE]
                 ELSE ParseDigits(word)
        day == ParseDigits(Without(RxGroup(ls, m, 2)[1], " "))
        year == ParseDigits(RxGroup(ls, m, 3)[1])
    IN  IF ~m.ok \/ m.end # Len(ls) THEN None
        ELSE IF year < 1 \/ day > DaysIn(year, month) THEN None
        ELSE Some(ToString(year) \o "-" \o Pad2(month) \o "-" \o Pad2(day))

\* The loop of _parse_date over the formats, from format k on.
RECURSIVE ParseDateFrom(_, _)
ParseDateFrom(date_str, k) ==
    IF k > Len(formats) THEN None
    ELSE LET parsed == StrpStrf(date_str, formats[k])
         IN  IF parsed # None THEN parsed
             ELSE ParseDateFrom(date_str, k + 1)

_parse_date(date_str) == ParseDateFrom(date_str, 1)

\* The loop of _extract_effective_date over the patterns, from pattern k on.
RECURSIVE EffectiveDateFrom(_, _)
EffectiveDateFrom(text, k) ==
    IF k > Len(date_patterns) THEN None
    ELSE LET match == RxSearch(ToLower(text), date_patterns[k], 0)
             parsed == _parse_date(RxGroup(text, match, 1)[1])
         IN  IF match.ok /\ parsed # None THEN parsed
             ELSE EffectiveDateFrom(text, k + 1)

_extract_effective_date(text) == EffectiveDateFrom(Take(text, 3000), 1)

\* re.search of the patterns in order: the first match of the first pattern
\* that matches (RxFail when none does), in the lower-cased text.
RECURSIVE FirstMatch(_, _, _)
FirstMatch(text, patterns, k) ==
    IF k > Len(patterns) THEN RxFail
    ELSE LET match == RxSearch(ToLower(text), patterns[k], 0)
         IN  IF match.ok THEN match ELSE FirstMatch(text, patterns, k + 1)

Plural == RxCls({"s"}, 0, 1)      \* s?
TermWords ==      \* ([0-9]+\s+(?:year|month|day)s?)
    << RxOpen(1), RxCls(Digits, 1, Unbounded), Ws1,
       RxAny(<< "year", "month", "day" >>), Plural, RxClose(1) >>

term_patterns ==
    << << RxLit("term"), ColonWs >> \o TermWords,
       << RxLit("duration"), ColonWs >> \o TermWords,
       << RxLit("period of"), Ws1 >> \o TermWords >>

_extract_term(text) ==
    LET match == FirstMatch(text, term_patterns, 1)
    IN  IF match.ok THEN Some(Strip(RxGroup(text, match, 1)[1])) ELSE None

LawWords ==      \* ([A-Za-z\s,]+?)(?:\.|,|\n)
    << RxOpen(1), RxLazy(LowerCase \cup Spaces \cup {","}, 1, Unbounded),
       RxClose(1), RxAny(<< ".", ",", "\n" >>) >>

law_patterns ==
    << << RxLit("governed by the laws of"), Ws1 >> \o LawWords,
       << RxLit("governing law"), ColonWs >> \o LawWords,
       << RxLit("jurisdiction"), ColonWs >> \o LawWords >>

\* The group may hold white space only: the value is then "".
_extract_governing_law(text) ==
    LET match == FirstMatch(text, law_patterns, 1)
    IN  IF match.ok THEN Some(Strip(RxGroup(text, match, 1)[1])) ELSE None

payment_patterns ==
    << << RxLit("payment term"), Plural, ColonWs, RxOpen(1),
          RxNot({"\n", "."}, 10, 100), RxClose(1) >>,
       << RxLit("net"), Ws1, RxCls(Digits, 1, Unbounded), Ws1, RxLit("day"),
          Plural >>,
       << RxLit("$"), RxCls(Digits \cup {","}, 1, Unbounded),
          RxOpt(<< RxLit("."), RxCls(Digits, 2, 2) >>), Ws1,
          RxAny(<< "per", "monthly", "annually" >>) >> >>

_extract_payment_terms(text) ==
    LET match == FirstMatch(text, payment_patterns, 1)
    IN  IF match.ok THEN Some(Strip(RxGroup(text, match, 0)[1])) ELSE None

\* keyword[:\s]+([^\n]{min,max}), the keyword given as a pattern
Clause(keyword, min, max) ==
    keyword \o << ColonWs, RxOpen(1), RxNot({"\n"}, min, max), RxClose(1) >>

_extract_termination(text) ==
    LET term_match == RxSearch(ToLower(text),
                               Clause(<< RxLit("termination") >>, 20, 200), 0)
    IN  IF term_match.ok THEN Some(Strip(RxGroup(text, term_match, 1)[1]))
        ELSE None

\* any(keyword in text.lower() for keyword in keywords)
AnyKeyword(text, keywords) ==
    \E i \in 1..Len(keywords) : Contains(ToLower(text), keywords[i])

auto_renewal_keywords == << "auto-renew", "automatic renewal", "automatically renew" >>

notice_pattern ==      \* (\d+)\s+days?\s+(?:prior\s+)?notice
    << RxOpen(1), RxCls(Digits, 1, Unbounded), RxClose(1), Ws1, RxLit("day"),
       Plural, Ws1, RxOpt(<< RxLit("prior"), Ws1 >>), RxLit("notice") >>

_extract_auto_renewal(text) ==
    LET exists == AnyKeyword(text, auto_renewal_keywords)
        match == RxSearch(ToLower(text), notice_pattern, 0)
    IN  [exists |-> exists,
         notice_period_days |->
            IF exists /\ match.ok
            THEN Some(ParseDigits(RxGroup(text, match, 1)[1])) ELSE None]

conf_keywords == << "confidential", "confidentiality", "non-disclosure" >>

_extract_confidentiality(text) ==
    LET exists == AnyKeyword(text, conf_keywords)
        match == RxSearch(ToLower(text),
                     Clause(<< RxLit("confidential"), RxOpt(<< RxLit("ity") >>) >>,
                            20, 150), 0)
    IN  [exists |-> exists,
         summary |-> IF exists /\ match.ok
                     THEN Some(Strip(RxGroup(text, match, 1)[1])) ELSE None]

indem_keywords == << "indemnif", "hold harmless" >>

_extract_indemnity(text) ==
    LET exists == AnyKeyword(text, indem_keywords)
        match == RxSearch(ToLower(text),
                     Clause(<< RxLit("indemni"),
                               RxAny(<< "ty", "fication", "fy" >>) >>, 20, 150), 0)
    IN  [exists |-> exists,
         summary |-> IF exists /\ match.ok
                     THEN Some(Strip(RxGroup(text, match, 1)[1])) ELSE None]

LazyDots == RxNotLazy({"\n"}, 0, Unbounded)      \* .*?
Amount ==      \* \$?([\d,]+)
    << RxCls({"$"}, 0, 1), RxOpen(1), RxCls(Digits \cup {","}, 1, Unbounded),
       RxClose(1) >>

cap_patterns ==
    << << RxLit("liability"), LazyDots,
          RxAny(<< "limited", "capped", "not exceed" >>), Ws1, LazyDots >>
          \o Amount,
       Amount \o << LazyDots, RxAny(<< "maximum", "limit" >>), LazyDots,
                    RxLit("liability") >> >>

\* The loop of _extract_liability_cap over the patterns, from pattern k on.
\* float() raises on the empty string that a group of commas leaves, and the
\* loop goes on; the amounts are whole numbers.
RECURSIVE LiabilityCapFrom(_, _)
LiabilityCapFrom(text, k) ==
    IF k > Len(cap_patterns) THEN None
    ELSE LET match == RxSearch(ToLower(text), cap_patterns[k], 0)
             amount_str == Without(RxGroup(text, match, 1)[1], ",")
         IN  IF match.ok /\ amount_str # ""
             THEN Some([amount |-> Some(ParseDigits(amount_str)),
                        currency |-> Some("USD")])
             ELSE LiabilityCapFrom(text, k + 1)

_extract_liability_cap(text) == LiabilityCapFrom(text, 1)

\* Matched as written: no re.IGNORECASE here.
sig_pattern ==
    << RxAny(<< "By:", "Signature:" >>), Ws0, RxOpen(1),
       RxCls(UpperCase, 1, 1), RxCls(LowerCase, 1, Unbounded), Ws1,
       RxCls(UpperCase, 1, 1), RxCls(LowerCase, 1, Unbounded), RxClose(1),
       Ws0, RxOpt(<< RxLit("Title:") >>), Ws0,
       RxOpt(<< RxOpen(2), RxCls(UpperCase, 1, 1),
                RxCls(LowerCase \cup Spaces, 1, Unbounded), RxClose(2) >>) >>

Signatory(name, title) == [name |-> name, title |-> title]

\* group(g).strip() if group(g) else ""
GroupOrEmpty(t, m, g) ==
    IF RxGroup(t, m, g) = None THEN "" ELSE Strip(RxGroup(t, m, g)[1])

_extract_signatories(text) ==
    LET tail == LastChars(text, 2000)
        matches == RxFindIter(tail, sig_pattern, 0)
    IN  Take([k \in 1..Len(matches) |->
                Signatory(GroupOrEmpty(tail, matches[k], 1),
                          GroupOrEmpty(tail, matches[k], 2))], 5)

\* The values json.loads gives, and the values of the five fields of the
\* record that the enhancement may assign: each is tagged with its Python
\* type t, a str holds s, a number (or bool, as 0 or 1) n, a list its items,
\* a dict its keys and, at the same positions, their items.
PyValue(t, s, n, items, keys) ==
    [t |-> t, s |-> s, n |-> n, items |-> items, keys |-> keys]
PyNone == PyValue("none", "", 0, << >>, << >>)
PyBool(b) == PyValue("bool", "", IF b THEN 1 ELSE 0, << >>, << >>)
PyNum(n) == PyValue("number", "", n, << >>, << >>)
PyStr(s) == PyValue("str", s, 0, << >>, << >>)
PyList(items) == PyValue("list", "", 0, items, << >>)
PyDict(keys, items) == PyValue("dict", "", 0, items, keys)

\* An Optional[str] and a List[str] of the rules, as Python values.
PyOpt(o) == IF o = None THEN PyNone ELSE PyStr(o[1])
PyStrs(strs) == PyList([i \in 1..Len(strs) |-> PyStr(strs[i])])

\* bool(v)
Truthy(v) ==
    CASE v.t = "none" -> FALSE
      [] v.t \in {"bool", "number"} -> v.n # 0
      [] v.t = "str" -> v.s # ""
      [] v.t \in {"list", "dict"} -> v.items # << >>

\* len(v) raises TypeError unless v is a str, a list or a dict.
HasLen(v) == v.t \in {"str", "list", "dict"}
PyLen(v) == IF v.t = "str" THEN Len(v.s) ELSE Len(v.items)

\* d.get(k) of a dict d
DictGet(d, k) ==
    LET at == {i \in 1..Len(d.keys) : d.keys[i] = k}
    IN  IF at = {} THEN PyNone ELSE d.items[Max(at)]

\* The assignment without its second test: whatever is proposed is taken.
FillIfProposed(result, llm_data, field) ==
    IF Truthy(DictGet(llm_data, field))
    THEN [result EXCEPT ![field] = DictGet(llm_data, field)]
    ELSE result

\* "if llm_data.get(field) and not result.field: result.field = llm_data[field]"
FillIfUnset(result, llm_data, field) ==
    IF Truthy(DictGet(llm_data, field)) /\ ~Truthy(result[field])
    THEN [result EXCEPT ![field] = DictGet(llm_data, field)]
    ELSE result

\* completion is what the call of the completion service comes to: it
\* raises, or it returns a content that json.loads rejects (valid = FALSE)
\* or parses to value.  Whatever is raised inside the try block is caught, and
\* nothing has been assigned by then: llm_data.get raises on anything but a
\* dict, len() on a number or a bool, both before the first assignment.
_enhance_with_llm(result, full_text, completion) ==
    LET llm_data == completion.value
        proposed == DictGet(llm_data, "parties")
        with_parties ==
            IF Truthy(proposed) /\ PyLen(proposed) > PyLen(result.parties)
            THEN [result EXCEPT !.parties = proposed] ELSE result
    IN  IF completion.raises \/ ~completion.valid THEN result
        ELSE IF llm_data.t # "dict" THEN result
        ELSE IF Truthy(proposed) /\ ~HasLen(proposed) THEN result
        ELSE FillIfUnset(
               FillIfUnset(
                 FillIfUnset(
                   FillIfUnset(with_parties, llm_data, "effective_date"),
                   llm_data, "term"),
                 llm_data, "governing_law"),
               llm_data, "payment_terms")

\* The record the eleven rules fill in (extract_fields up to the enhancement).
RuleBased(document_id, full_text) ==
    [document_id |-> document_id,
     parties |-> PyStrs(_extract_parties(full_text)),
     effective_date |-> PyOpt(_extract_effective_date(full_text)),
     term |-> PyOpt(_extract_term(full_text)),
     governing_law |-> PyOpt(_extract_governing_law(full_text)),
     payment_terms |-> PyOpt(_extract_payment_terms(full_text)),
     termination |-> _extract_termination(full_text),
     auto_renewal |-> _extract_auto_renewal(full_text),
     confidentiality |-> _extract_confidentiality(full_text),
     indemnity |-> _extract_indemnity(full_text),
     liability_cap |-> _extract_liability_cap(full_text),
     signatories |-> _extract_signatories(full_text)]

\* use_openai is the extractor's flag, set when it is constructed.
extract_fields(document_id, full_text, pages_data, use_openai, completion) ==
    IF use_openai
    THEN _enhance_with_llm(RuleBased(document_id, full_text), full_text,
                           completion)
    ELSE RuleBased(document_id, full_text)

-----------------------------------------------------------------------------
(* The calls under study and their inputs *)

NoRet == [done |-> FALSE, value |-> << >>]
Returned(v) == [done |-> TRUE, value |-> v]

\* Settings' defaults (app/config.py).
liability_cap_threshold == 50000
auto_renewal_notice_days == 30

\* Bounds of the drawn inputs.
MaxThreshold == 2   \* thresholds are drawn from 0..MaxThreshold
MaxNotice == 1      \* notice_period_days from 0..MaxNotice
MaxAmount == 1      \* liability_cap.amount from 0..MaxAmount

\* Page texts of the audited contracts: the six texts of
\* tests/test_auditor.py, then texts that make each remaining pattern match,
\* or miss across a line break.
TextRenew == "This agreement will automatically renew unless you provide 15 days notice."
TextUnlimited == "Party shall have unlimited liability for all claims and damages."
TextIndemnify == "Party shall indemnify against all claims, whether known or unknown."
TextForCause == "This agreement may only be terminated for cause."
TextLimited == "Liability shall be limited to $10,000."
TextGood == "\n    This agreement has a 60-day auto-renewal notice period.\n    Liability is capped at $200,000.\n    Indemnification applies only to breaches of this agreement.\n    Either party may terminate for convenience with 30 days notice.\n    "
TextWithoutLimit == " Applies without  limit."
TextNextLine == "\nWithout limit of time."
TextNoLimitation == "\nThere is No Limitation on\tliability.\n"
TextHoldHarmless == "Hold harmless from any and all\n claims."
TextConvenience == "Either party may terminate for convenience with 30 days notice."
TextWithoutCause == "\nTermination without cause; automatic renewal, auto-renew applies."

AuditPageTexts ==
    { "", TextRenew, TextUnlimited, TextIndemnify, TextForCause, TextLimited,
      TextGood, TextWithoutLimit, TextNextLine, TextNoLimitation,
      TextHoldHarmless, TextConvenience, TextWithoutCause }

\* The audited contracts: every page text alone, and two-page contracts
\* whose patterns match only across the two pages, or on both.
AuditPdfs ==
    {<<a>> : a \in AuditPageTexts} \cup
    { <<TextLimited, TextWithoutLimit>>, <<TextLimited, TextNextLine>>,
      <<TextLimited, TextNoLimitation>>, <<TextUnlimited, TextForCause>>,
      <<TextIndemnify, TextConvenience>>, <<TextIndemnify, TextHoldHarmless>>,
      <<TextHoldHarmless, TextWithoutCause>>, <<"", TextIndemnify>>,
      <<TextRenew, TextLimited>>, <<TextWithoutCause, TextUnlimited>>,
      <<TextForCause, TextWithoutCause>>, <<TextUnlimited, TextIndemnify>> }

AutoRenewalValues ==
    {[exists |-> FALSE, notice_period_days |-> None]}
      \cup {[exists |-> TRUE, notice_period_days |-> n] :
               n \in {None} \cup {Some(d) : d \in 0..MaxNotice}}

IndemnityValues == {[exists |-> b, summary |-> None] : b \in BOOLEAN}

LiabilityCapValues ==
    {None, Some([amount |-> None, currency |-> None])}
      \cup {Some([amount |-> Some(a), currency |-> Some("USD")]) :
               a \in 0..MaxAmount}

\* The extraction_data dicts handed to the auditor: each of the three keys
\* it reads is missing (as in the {} that /audit passes for a document with
\* no extraction record, and in the dicts of tests/test_auditor.py) or holds
\* a value of the stored record's shape.
ExtractionRecords ==
    {ar @@ ind @@ lc :
        ar \in {EmptyDict} \cup {[auto_renewal |-> v] : v \in AutoRenewalValues},
        ind \in {EmptyDict} \cup {[indemnity |-> v] : v \in IndemnityValues},
        lc \in {EmptyDict} \cup {[liability_cap |-> v] : v \in LiabilityCapValues}}

Thresholds == 0..MaxThreshold


auditor == <<renewal_notice_threshold, liability_threshold>>
tables ==
    <<documents, document_pages, document_chunks, extractions, audit_findings,
      metrics>>
service == <<tables, requests, responses>>
vars == <<auditor, service, args, ret>>

\* The service at rest: what the specifications of single calls leave alone.
ServiceAtRest ==
    /\ documents = << >> /\ document_pages = << >> /\ document_chunks = << >>
    /\ extractions = << >> /\ audit_findings = << >> /\ metrics = << >>
    /\ requests = << >> /\ responses = << >>

-----------------------------------------------------------------------------
(* SpecAudit: one call of ContractAuditor.audit_contract on drawn inputs *)

InitAudit ==
    /\ renewal_notice_threshold \in Thresholds
    /\ liability_threshold \in Thresholds
    /\ \E pdf \in AuditPdfs, extraction_data \in ExtractionRecords :
          LET doc == extract_text_from_pdf(pdf)
          IN  args = [op |-> "audit_contract",
                      full_text |-> doc.full_text,
                      extraction_data |-> extraction_data,
                      pages_data |-> doc.pages_data]
    /\ ret = NoRet
    /\ ServiceAtRest

AuditCall ==
    /\ args.op = "audit_contract"
    /\ ~ret.done
    /\ ret' = Returned(audit_contract(args.full_text, args.extraction_data,
                                      args.pages_data,
                                      renewal_notice_threshold,
                                      liability_threshold))
    /\ UNCHANGED <<auditor, service, args>>

NextAudit == AuditCall

SpecAudit == InitAudit /\ [][NextAudit]_vars

-----------------------------------------------------------------------------
(* Claims about one audit run (SpecAudit) *)

AuditReturned == args.op = "audit_contract" /\ ret.done

\* The findings of the run that have the given type.
OfType(type) == SelectSeq(ret.value, LAMBDA f : f.type = type)

\* The record's auto_renewal has exists = true.
RenewalExists ==
    /\ "auto_renewal" \in DOMAIN args.extraction_data
    /\ args.extraction_data["auto_renewal"].exists

\* The record's notice_period_days, None when unset or when there is no
\* auto_renewal.
NoticeDays ==
    IF "auto_renewal" \in DOMAIN args.extraction_data
    THEN args.extraction_data["auto_renewal"].notice_period_days
    ELSE None

IndemnityExists ==
    /\ "indemnity" \in DOMAIN args.extraction_data
    /\ args.extraction_data["indemnity"].exists

\* The record holds a liability_cap.
CapPresent ==
    /\ "liability_cap" \in DOMAIN args.extraction_data
    /\ args.extraction_data["liability_cap"] # None

\* The liability_cap's amount, None when there is none.
CapAmount ==
    IF CapPresent THEN args.extraction_data["liability_cap"][1].amount ELSE None

\* The word occurs in the text, in any case.
ContainsWord(text, word) ==
    \E o \in 0..(Len(text) - Len(word)) :
        ToLower(SubSeq(text, o + 1, o + Len(word))) = word

\* C2: in the list one audit_contract run returns, no two findings have the
\* same id, and the id of the i-th finding of the run is "FIND-" followed by
\* i in three digits.
C2_IdsUniqueInRun ==
    AuditReturned =>
        /\ \A i, j \in 1..Len(ret.value) :
              i # j => ret.value[i].id # ret.value[j].id
        /\ \A i \in 1..Len(ret.value) : ret.value[i].id = "FIND-" \o Pad3(i)

\* C3: with auto_renewal.exists true and notice_period_days set to n, the run
\* returns exactly one auto_renewal finding, of severity HIGH, when n is
\* below the threshold and none when n is at or above it; with exists false
\* or auto_renewal missing it returns none.
C3_AutoRenewalByNotice ==
    AuditReturned =>
        LET found == OfType("auto_renewal")
        IN  /\ (RenewalExists /\ NoticeDays # None
                  /\ NoticeDays[1] < renewal_notice_threshold)
                 => (Len(found) = 1 /\ found[1].severity = "HIGH")
            /\ (RenewalExists /\ NoticeDays # None
                  /\ NoticeDays[1] >= renewal_notice_threshold)
                 => found = << >>
            /\ ~RenewalExists => found = << >>

\* C4: the unlimited-liability check returns at most one finding, of severity
\* HIGH: the "unlimited liability clause" finding when the text matches one
\* of the unlimited-liability patterns, with or without a cap; else the "no
\* liability cap" finding, with at most one evidence span, when no cap is
\* present and the text contains "liability"; else nothing.
C4_UnlimitedLiabilityBranches ==
    AuditReturned =>
        LET found == OfType("unlimited_liability")
            matched == AnyMatch(unlimited_patterns, args.full_text)
            missing_cap == /\ ~matched
                           /\ ~CapPresent
                           /\ ContainsWord(args.full_text, "liability")
        IN  /\ Len(found) <= 1
            /\ \A i \in 1..Len(found) : found[i].severity = "HIGH"
            /\ matched =>
                 /\ Len(found) = 1
                 /\ found[1].summary = "Contract contains unlimited liability clause"
            /\ missing_cap =>
                 /\ Len(found) = 1
                 /\ found[1].summary = "No liability cap specified in contract"
                 /\ Len(found[1].evidence) <= 1
            /\ (~matched /\ ~missing_cap) => found = << >>

\* The text matches an unlimited-liability pattern, there is no cap, and the
\* one finding is the pattern's: the missing-cap branch has not fired.
C4_Witness ==
    /\ AuditReturned
    /\ AnyMatch(unlimited_patterns, args.full_text)
    /\ ~CapPresent
    /\ Len(OfType("unlimited_liability")) = 1
    /\ OfType("unlimited_liability")[1].summary =
         "Contract contains unlimited liability clause"
    /\ Len(OfType("unlimited_liability")[1].evidence) >= 1

\* C5: the run returns exactly one broad_indemnity finding, of severity
\* MEDIUM, when indemnity.exists is true and the text matches a
\* broad-indemnity pattern, and none when indemnity.exists is false or
\* indemnity is missing, whatever the text.
C5_BroadIndemnityGated ==
    AuditReturned =>
        LET found == OfType("broad_indemnity")
        IN  /\ (IndemnityExists /\ AnyMatch(broad_patterns, args.full_text))
                 => (Len(found) = 1 /\ found[1].severity = "MEDIUM")
            /\ ~IndemnityExists => found = << >>

\* indemnity.exists is false, the text matches a broad-indemnity pattern,
\* and the run has no broad_indemnity finding.
C5_Witness ==
    /\ AuditReturned
    /\ "indemnity" \in DOMAIN args.extraction_data
    /\ ~args.extraction_data["indemnity"].exists
    /\ AnyMatch(broad_patterns, args.full_text)
    /\ OfType("broad_indemnity") = << >>
    /\ Len(ret.value) >= 1

\* C6: whatever the extraction record, the run returns exactly one
\* missing_termination_convenience finding, of severity MEDIUM and with at
\* most one evidence span, when the text matches none of the three
\* convenience patterns, and none when it matches one.
C6_TerminationConvenienceUnconditional ==
    AuditReturned =>
        LET found == OfType("missing_termination_convenience")
        IN  IF AnyMatch(convenience_patterns, args.full_text)
            THEN found = << >>
            ELSE /\ Len(found) = 1
                 /\ found[1].severity = "MEDIUM"
                 /\ Len(found[1].evidence) <= 1

\* An empty record, a text that mentions termination without a convenience
\* clause, and the one finding with its one evidence span.
C6_Witness ==
    /\ AuditReturned
    /\ args.extraction_data = EmptyDict
    /\ ~AnyMatch(convenience_patterns, args.full_text)
    /\ Len(OfType("missing_termination_convenience")) = 1
    /\ Len(OfType("missing_termination_convenience")[1].evidence) = 1

\* C7: with a liability_cap whose amount a is set, the run returns exactly
\* one low_liability_cap finding, of severity LOW, when a is below the
\* threshold, and none when a is at or above it or the cap is absent.
C7_LowCapByAmount ==
    AuditReturned =>
        LET found == OfType("low_liability_cap")
        IN  /\ (CapAmount # None /\ CapAmount[1] < liability_threshold)
                 => (Len(found) = 1 /\ found[1].severity = "LOW")
            /\ (CapAmount # None /\ CapAmount[1] >= liability_threshold)
                 => found = << >>
            /\ ~CapPresent => found = << >>

\* C8: the run returns no HIGH finding when auto_renewal is absent, or its
\* exists is false, or its notice_period_days is set and at or above the
\* threshold, and a liability_cap is present, and the text matches none of
\* the unlimited-liability patterns.
C8_NoHighForSoundContract ==
    AuditReturned =>
        ((/\ \/ ~RenewalExists
             \/ (NoticeDays # None /\ NoticeDays[1] >= renewal_notice_threshold)
          /\ CapPresent
          /\ ~AnyMatch(unlimited_patterns, args.full_text))
         => \A i \in 1..Len(ret.value) : ret.value[i].severity # "HIGH")

\* C22: the id of a finding counts within the output of the finding's own
\* check, and a check returns at most one finding: every finding of a run
\* has the id "FIND-001", so any two findings of a run share their id.
C22_EveryIdIsFind001 ==
    AuditReturned =>
        /\ \A i \in 1..Len(ret.value) : ret.value[i].id = "FIND-001"
        /\ \A i, j \in 1..Len(ret.value) : ret.value[i].id = ret.value[j].id

\* A run with three findings of three types, all with the id "FIND-001".
C22_Witness ==
    /\ AuditReturned
    /\ Len(ret.value) = 3
    /\ Cardinality({ret.value[i].type : i \in 1..3}) = 3
    /\ \A i \in 1..3 : ret.value[i].id = "FIND-001"

\* The types of finding, in the order of the checks that make them.
CheckOrder ==
    <<"auto_renewal", "unlimited_liability", "broad_indemnity",
      "missing_termination_convenience", "low_liability_cap">>

\* C23: the findings of a run come in the order of the five checks, each
\* check giving at most one: the types are among the five, no type occurs
\* twice, a finding of an earlier check precedes one of a later check, and
\* so the run has at most five findings.
C23_FindingsInCheckOrder ==
    AuditReturned =>
        /\ Len(ret.value) <= 5
        /\ \A i \in 1..Len(ret.value) :
              \E k \in 1..5 : ret.value[i].type = CheckOrder[k]
        /\ \A i, j \in 1..Len(ret.value) :
              i < j => \E k, m \in 1..5 :
                          /\ k < m
                          /\ ret.value[i].type = CheckOrder[k]
                          /\ ret.value[j].type = CheckOrder[m]

\* A run in which every check gives its finding.
C23_Witness ==
    /\ AuditReturned
    /\ [i \in 1..Len(ret.value) |-> ret.value[i].type] = CheckOrder

\* C24: with auto_renewal.exists true, a notice_period_days set to n below
\* the threshold T, n = 0 included, gives the one auto_renewal finding the
\* summary "Auto-renewal with n days notice (less than T days)"; the
\* summary "Auto-renewal clause with unclear notice period" is given only
\* when notice_period_days is unset.
C24_SummaryByNotice ==
    (AuditReturned /\ RenewalExists) =>
        LET found == OfType("auto_renewal")
        IN  /\ (NoticeDays # None /\ NoticeDays[1] < renewal_notice_threshold)
                 => /\ Len(found) = 1
                    /\ found[1].summary =
                         "Auto-renewal with " \o ToString(NoticeDays[1])
                           \o " days notice (less than "
                           \o ToString(renewal_notice_threshold) \o " days)"
            /\ \A i \in 1..Len(found) :
                  found[i].summary
                      = "Auto-renewal clause with unclear notice period"
                    => NoticeDays = None

-----------------------------------------------------------------------------
(* SpecEvidence: a PDF's page table, then one call of _find_evidence *)

MaxPages == 2       \* a PDF has 0..MaxPages pages
MaxKeywords == 2    \* a keyword list has 1..MaxKeywords keywords

RECURSIVE Repeat(_, _)
Repeat(c, n) == IF n = 0 THEN "" ELSE c \o Repeat(c, n - 1)

\* Page texts: a blank page, short lines, a keyword split over a page break
\* ("a" before "b..."), lines longer than the context window.
EvidencePageTexts ==
    { "", "a", "xAB\nb", "x\n",
      "b" \o Repeat("x", ContextChars) \o "ab",
      Repeat("x", ContextChars + 1) \o "b" }

EvidenceKeywords == {"ab", "B", "zz"}

RECURSIVE SeqsUpTo(_, _)
\* The sequences over S of length at most n.
SeqsUpTo(S, n) ==
    IF n = 0 THEN {<< >>}
    ELSE LET shorter == SeqsUpTo(S, n - 1)
         IN  shorter \cup {Append(q, x) : q \in shorter, x \in S}

\* tests/test_auditor.py, sample_pages: a page table that is not the text's.
sample_pages ==
    << [page_number |-> 1, text |-> "Sample text", char_start |-> 0,
        char_end |-> 100] >>

InitEvidence ==
    /\ renewal_notice_threshold = auto_renewal_notice_days
    /\ liability_threshold = liability_cap_threshold
    /\ \E pdf \in SeqsUpTo(EvidencePageTexts, MaxPages),
          keywords \in SeqsUpTo(EvidenceKeywords, MaxKeywords) \ {<< >>} :
          args = [op |-> "extract_text_from_pdf", pdf |-> pdf,
                  keywords |-> keywords]
    /\ ret = NoRet
    /\ ServiceAtRest

\* /ingest reads the PDF; the text and the page table it stores are what
\* the auditor later gets.
PdfExtract ==
    /\ args.op = "extract_text_from_pdf"
    /\ LET doc == extract_text_from_pdf(args.pdf)
       IN  args' = [op |-> "_find_evidence", full_text |-> doc.full_text,
                    pages_data |-> doc.pages_data, keywords |-> args.keywords,
                    from_pdf |-> TRUE]
    /\ UNCHANGED <<auditor, service, ret>>

\* A caller with a page table of its own, as the auditor's tests have, or
\* with none.
ForeignPages ==
    /\ args.op = "extract_text_from_pdf"
    /\ \E pages_data \in {<< >>, sample_pages} :
          args' = [op |-> "_find_evidence",
                   full_text |-> extract_text_from_pdf(args.pdf).full_text,
                   pages_data |-> pages_data, keywords |-> args.keywords,
                   from_pdf |-> FALSE]
    /\ UNCHANGED <<auditor, service, ret>>

Locate ==
    /\ args.op = "_find_evidence"
    /\ ~ret.done
    /\ ret' = Returned(_find_evidence(args.full_text, args.pages_data,
                                      args.keywords))
    /\ UNCHANGED <<auditor, service, args>>

NextEvidence == PdfExtract \/ ForeignPages \/ Locate

SpecEvidence == InitEvidence /\ [][NextEvidence]_vars

-----------------------------------------------------------------------------
(* Claims about the evidence locator (SpecEvidence) *)

EvidenceCall == args.op = "_find_evidence"
EvidenceReturned == EvidenceCall /\ ret.done

\* The pages of the table, by index, that contain 0-based offset o.
PagesContaining(pages_data, o) ==
    {i \in 1..Len(pages_data) :
        pages_data[i].char_start <= o /\ o < pages_data[i].char_end}

\* C9: the page table extract_text_from_pdf builds is in page order,
\* contiguous from offset 0 and ends at the text's length; every offset of
\* the text lies in exactly one of its pages; and the page _find_evidence
\* reports for a span is the page_number of the page that holds the span's
\* first character.
C9_OffsetHasOnePage ==
    (EvidenceCall /\ args.from_pdf) =>
        LET pages_data == args.pages_data
            n == Len(pages_data)
        IN  /\ \A i \in 1..n :
                  /\ pages_data[i].page_number = i
                  /\ pages_data[i].char_start =
                       (IF i = 1 THEN 0 ELSE pages_data[i - 1].char_end)
                  /\ pages_data[i].char_start <= pages_data[i].char_end
            /\ (IF n = 0 THEN 0 ELSE pages_data[n].char_end) = Len(args.full_text)
            /\ \A o \in 0..(Len(args.full_text) - 1) :
                  Cardinality(PagesContaining(pages_data, o)) = 1
            /\ ret.done =>
                 \A k \in 1..Len(ret.value) :
                    \E i \in PagesContaining(pages_data, ret.value[k].char_start) :
                       ret.value[k].page = pages_data[i].page_number

\* A span that starts on the first character of the second page.
C9_Witness ==
    /\ EvidenceReturned /\ args.from_pdf
    /\ \E k \in 1..Len(ret.value) :
          /\ ret.value[k].page = 2
          /\ ret.value[k].char_start = args.pages_data[2].char_start
          /\ ret.value[k].char_start > 0

\* The keywords of the call, by index, that occur in the text.
MatchingKeywords ==
    {i \in 1..Len(args.keywords) :
        ContainsWord(args.full_text, ToLower(args.keywords[i]))}

\* C10: _find_evidence returns at most 3 spans; none when no keyword occurs
\* in the text; else exactly the first two matches (or the only one) of the
\* first keyword, in list order, that occurs, each an excerpt of the text
\* that contains that keyword, and nothing of any later keyword.
C10_FirstMatchingKeywordOnly ==
    EvidenceReturned =>
        /\ Len(ret.value) <= 3
        /\ MatchingKeywords = {} => ret.value = << >>
        /\ MatchingKeywords # {} =>
             LET keyword == args.keywords[Min(MatchingKeywords)]
                 matches == FindIter(ToLower(args.full_text), ToLower(keyword), 0)
             IN  /\ Len(ret.value) = (IF Len(matches) < 2 THEN Len(matches) ELSE 2)
                 /\ Len(ret.value) >= 1
                 /\ \A k \in 1..Len(ret.value) :
                       /\ ret.value[k].char_start = matches[k].start
                       /\ ret.value[k].char_end = matches[k].end
                       /\ ret.value[k].excerpt =
                            SubSeq(args.full_text, ret.value[k].char_start + 1,
                                   ret.value[k].char_end)
                       /\ ContainsWord(ret.value[k].excerpt, ToLower(keyword))

\* The first keyword does not occur, the second has three matches or more,
\* and two spans come back.
C10_Witness ==
    /\ EvidenceReturned
    /\ Len(args.keywords) = 2
    /\ Min(MatchingKeywords \cup {3}) = 2
    /\ Len(FindIter(ToLower(args.full_text), ToLower(args.keywords[2]), 0)) >= 3
    /\ Len(ret.value) = 2

\* The 0-based offsets, within the span, where the lower-cased keyword lkw
\* stands in the text.
OccurrencesIn(span, lkw) ==
    {o \in span.char_start..(span.char_end - Len(lkw)) :
        ToLower(SubSeq(args.full_text, o + 1, o + Len(lkw))) = lkw}

\* C11: every span _find_evidence returns for keyword k lies within the
\* text, its excerpt is the text between its offsets, and the excerpt holds
\* an occurrence of k, in any case, with at most 100 characters before it
\* and at most 100 after it; so the span is at most len(k) + 200 long.
C11_SpanIsKeywordInContext ==
    (EvidenceReturned /\ ret.value # << >>) =>
        LET lkw == ToLower(args.keywords[Min(MatchingKeywords)])
        IN  \A k \in 1..Len(ret.value) :
               LET span == ret.value[k]
               IN  /\ 0 <= span.char_start
                   /\ span.char_start <= span.char_end
                   /\ span.char_end <= Len(args.full_text)
                   /\ span.excerpt = SubSeq(args.full_text,
                                            span.char_start + 1, span.char_end)
                   /\ \E o \in OccurrencesIn(span, lkw) :
                         /\ o - span.char_start <= 100
                         /\ span.char_end - (o + Len(lkw)) <= 100
                   /\ span.char_end - span.char_start <= Len(lkw) + 200

\* A span cut 100 characters after its keyword, short of the line's end,
\* and another that starts 100 characters before its keyword.
C11_Witness ==
    /\ EvidenceReturned
    /\ \E k \in 1..Len(ret.value) :
          /\ ret.value[k].char_end < Len(args.full_text)
          /\ CharAt(args.full_text, ret.value[k].char_end) # "\n"
          /\ \E o \in OccurrencesIn(ret.value[k],
                        ToLower(args.keywords[Min(MatchingKeywords)])) :
                ret.value[k].char_end - (o + 1) = 100
    /\ \E k \in 1..Len(ret.value) :
          \E o \in OccurrencesIn(ret.value[k],
                        ToLower(args.keywords[Min(MatchingKeywords)])) :
             o - ret.value[k].char_start = 100

-----------------------------------------------------------------------------
(* SpecExtract: one call of FieldExtractor.extract_fields on a drawn text, *)
(* with or without the enhancement step.                                   *)

\* The sample_contract fixture of tests/test_extractor.py.
sample_contract ==
    "\n" \o
    "    MASTER SERVICE AGREEMENT\n" \o
    "\n" \o
    "    This Agreement is entered into as of January 15, 2024, by and between\n" \o
    "    Acme Corporation (\"Company\") and Beta Services LLC (\"Vendor\").\n" \o
    "\n" \o
    "    1. TERM\n" \o
    "    This Agreement shall commence on the Effective Date and continue for a period\n" \o
    "    of 12 months, unless earlier terminated in accordance with the terms herein.\n" \o
    "\n" \o
    "    2. PAYMENT TERMS\n" \o
    "    Client shall pay Vendor $5,000 per month, due within Net 30 days of invoice.\n" \o
    "\n" \o
    "    3. GOVERNING LAW\n" \o
    "    This Agreement shall be governed by the laws of the State of California.\n" \o
    "\n" \o
    "    4. LIABILITY\n" \o
    "    In no event shall either party's liability exceed $100,000.\n" \o
    "\n" \o
    "    5. CONFIDENTIALITY\n" \o
    "    Each party agrees to maintain the confidentiality of all proprietary information\n" \o
    "    disclosed by the other party during the term of this Agreement.\n" \o
    "\n" \o
    "    6. INDEMNIFICATION\n" \o
    "    Each party shall indemnify and hold harmless the other party from any claims\n" \o
    "    arising out of its negligent acts or omissions.\n" \o
    "\n" \o
    "    7. TERMINATION\n" \o
    "    Either party may terminate this Agreement for convenience upon 30 days written notice.\n" \o
    "\n" \o
    "    8. AUTO-RENEWAL\n" \o
    "    This Agreement shall automatically renew for successive 12-month terms unless\n" \o
    "    either party provides written notice of non-renewal at least 45 days prior to\n" \o
    "    the end of the then-current term.\n" \o
    "    "

TextEmpty == ""
TextTwoParties ==
    "This agreement is made between Acme Corporation and Beta Services LLC, dated January 5, 2024."
\* The governing-law group takes one blank: the value is "".
TextBlankLaw ==
    "This Agreement is governed by the laws of  . Term: 12 months"
\* Thirteen "between ... and" phrases, one name twice, and six signature
\* lines.
TextManyParties ==
    "between Alfa Co and between Bravo Co and between Alfa Co and between Delta Co and between Echo Co and between Fox Co and between Golf Co and between Hotel Co and between India Co and between Juliet Co and between Kilo Co and between Lima Co and between Mike Co and\n" \o
    "By: Ann Lee. By: Bob Ray. By: Cy Fox. By: Di Poe. By: Ed Kim. By: Flo Day."
TextTerms ==
    "Governing Law: Delaware\n" \o
    "Payment Terms: Net 30 days from invoice\n" \o
    "By: John Smith Title: Director"
TextNotice ==
    "This Agreement shall auto-renew unless 60 days prior notice is given. Liability is limited to $50,000"

ExtractTexts ==
    {sample_contract, TextEmpty, TextTwoParties, TextBlankLaw, TextManyParties,
     TextTerms, TextNotice}

\* What the completion call comes to.
CompletionRaises == [raises |-> TRUE, valid |-> FALSE, value |-> PyNone]
CompletionNotJson == [raises |-> FALSE, valid |-> FALSE, value |-> PyNone]
Completed(value) == [raises |-> FALSE, valid |-> TRUE, value |-> value]

EnhancedFields ==
    << "parties", "effective_date", "term", "governing_law", "payment_terms" >>

\* A response of the shape the prompt asks for.
ProperResponse ==
    PyDict(EnhancedFields,
           << PyStrs(<< "Acme Corporation", "Beta Services LLC" >>),
              PyStr("2024-01-15"), PyStr("12 months"), PyStr("California"),
              PyStr("Net 30") >>)
AllNullResponse ==
    PyDict(EnhancedFields, << PyNone, PyNone, PyNone, PyNone, PyNone >>)
OnePartyResponse == PyDict(<< "parties" >>, << PyStrs(<< "Solo Ltd" >>) >>)
ElevenParties ==
    PyDict(<< "parties" >>,
           << PyStrs(<< "Alfa Co", "Bravo Co", "Charlie Co", "Delta Co",
                        "Echo Co", "Fox Co", "Golf Co", "Hotel Co", "India Co",
                        "Juliet Co", "Kilo Co" >>) >>)
DuplicateParties ==
    PyDict(<< "parties" >>,
           << PyStrs(<< "Acme Corporation", "Acme Corporation" >>) >>)
\* Responses of another shape than asked for.
PartiesAsString ==
    PyDict(<< "parties" >>, << PyStr("Acme Corporation and Beta Services LLC") >>)
PartiesAsNumber == PyDict(<< "parties", "term" >>, << PyNum(2), PyStr("1 year") >>)
TermAsNumber == PyDict(<< "term" >>, << PyNum(12) >>)
\* A response that also proposes fields nobody asked for.
ExtraKeys ==
    PyDict(<< "term", "termination", "auto_renewal", "confidentiality",
              "indemnity", "liability_cap", "signatories" >>,
           << PyStr("3 years"), PyStr("at will"),
              PyDict(<< "exists" >>, << PyBool(TRUE) >>),
              PyDict(<< "exists" >>, << PyBool(TRUE) >>),
              PyDict(<< "exists" >>, << PyBool(TRUE) >>),
              PyDict(<< "amount" >>, << PyNum(1) >>),
              PyList(<< PyStr("Ann Lee") >>) >>)

LlmCompletions ==
    {CompletionRaises, CompletionNotJson}
      \cup {Completed(v) :
              v \in {PyList(<< PyNum(1) >>), PyStr("n/a"), PyDict(<< >>, << >>),
                     ProperResponse, AllNullResponse, OnePartyResponse,
                     ElevenParties, DuplicateParties, PartiesAsString,
                     PartiesAsNumber, TermAsNumber, ExtraKeys}}

InitExtract ==
    /\ renewal_notice_threshold = auto_renewal_notice_days
    /\ liability_threshold = liability_cap_threshold
    /\ \E full_text \in ExtractTexts, use_openai \in BOOLEAN :
          \E completion \in IF use_openai THEN LlmCompletions
                            ELSE {CompletionRaises} :
             args = [op |-> "extract_fields", document_id |-> "test-doc-1",
                     full_text |-> full_text, pages_data |-> << >>,
                     use_openai |-> use_openai, completion |-> completion]
    /\ ret = NoRet
    /\ ServiceAtRest

ExtractCall ==
    /\ args.op = "extract_fields"
    /\ ~ret.done
    /\ ret' = Returned(extract_fields(args.document_id, args.full_text,
                                      args.pages_data, args.use_openai,
                                      args.completion))
    /\ UNCHANGED <<auditor, service, args>>

NextExtract == ExtractCall

SpecExtract == InitExtract /\ [][NextExtract]_vars

-----------------------------------------------------------------------------
(* Claims about one extraction (SpecExtract) *)

ExtractReturned == args.op = "extract_fields" /\ ret.done

\* What the pattern rules alone make of the call's text.
RuleRecord == RuleBased(args.document_id, args.full_text)

\* The parsed response, and what it proposes for a field.
LlmData == args.completion.value
Proposed(field) == DictGet(LlmData, field)

\* The shape the prompt asks for: an object whose parties are null or a list
\* of strings and whose four other fields are null or strings.
ExpectedShape(v) ==
    /\ v.t = "dict"
    /\ \/ DictGet(v, "parties").t = "none"
       \/ /\ DictGet(v, "parties").t = "list"
          /\ \A i \in 1..Len(DictGet(v, "parties").items) :
                DictGet(v, "parties").items[i].t = "str"
    /\ \A k \in 2..Len(EnhancedFields) :
          DictGet(v, EnhancedFields[k]).t \in {"none", "str"}

\* The enhancement step ran and failed in one of the three ways.
EnhancementFailed ==
    /\ args.use_openai
    /\ \/ args.completion.raises
       \/ ~args.completion.valid
       \/ ~ExpectedShape(LlmData)

\* C12: when the enhancement step is enabled and fails (the call raises, the
\* response is no valid JSON, or the JSON has an unexpected shape),
\* extract_fields returns a record equal in every field to the record of the
\* pattern rules alone.
C12_FailedEnhancementLeavesRecord ==
    (ExtractReturned /\ EnhancementFailed) => ret.value = RuleRecord

\* The enhancement step ran to its end without raising.
EnhancementSucceeded ==
    /\ args.use_openai
    /\ ~args.completion.raises
    /\ args.completion.valid
    /\ LlmData.t = "dict"
    /\ Truthy(Proposed("parties")) => HasLen(Proposed("parties"))

FilledFields == {"effective_date", "term", "governing_law", "payment_terms"}
UntouchedFields ==
    {"termination", "auto_renewal", "confidentiality", "indemnity",
     "liability_cap", "signatories"}

\* The parties are replaced only by a proposal longer than the rules' list,
\* and the six fields the step does not know stay as the rules left them;
\* rule is the record of the rules.
PartiesAndFrame(rule) ==
    /\ (EnhancementSucceeded /\ ret.value.parties # rule.parties)
          => /\ ret.value.parties = Proposed("parties")
             /\ PyLen(Proposed("parties")) > PyLen(rule.parties)
    /\ \A f \in UntouchedFields : ret.value[f] = rule[f]

\* C13: a successful enhancement overwrites effective_date, term,
\* governing_law or payment_terms only when the rule-based value of the field
\* is absent, replaces parties only when the proposed list is strictly longer
\* than the rule-based list, and leaves termination, auto_renewal,
\* confidentiality, indemnity, liability_cap and signatories unchanged for
\* every response.
C13_OverwritesOnlyAbsent ==
    ExtractReturned =>
        LET rule == RuleRecord
        IN  /\ EnhancementSucceeded =>
                  \A f \in FilledFields :
                     ret.value[f] # rule[f] => rule[f] = PyNone
            /\ PartiesAndFrame(rule)

\* C13, amended: as C13, a field being overwritten only when its rule-based
\* value is absent or the empty string.
C13_OverwritesOnlyAbsentOrEmpty ==
    ExtractReturned =>
        LET rule == RuleRecord
        IN  /\ EnhancementSucceeded =>
                  \A f \in FilledFields :
                     ret.value[f] # rule[f]
                        => (rule[f] = PyNone \/ rule[f] = PyStr(""))
            /\ PartiesAndFrame(rule)

\* An empty governing law is overwritten, a term the rules found is kept
\* against another proposal, and the parties are replaced.
C13_Witness ==
    /\ ExtractReturned
    /\ EnhancementSucceeded
    /\ RuleRecord.governing_law = PyStr("")
    /\ ret.value.governing_law = PyStr("California")
    /\ RuleRecord.term = PyStr("12 months")
    /\ Truthy(Proposed("term"))
    /\ ret.value.term = RuleRecord.term
    /\ ret.value.parties # RuleRecord.parties

\* C14: every record extract_fields returns, with or without the enhancement
\* step, has a parties list of at most 10 entries with no duplicate strings
\* and a signatories list of at most 5 entries.
C14_PartiesAndSignatoriesBounded ==
    ExtractReturned =>
        /\ ret.value.parties.t = "list"
        /\ Len(ret.value.parties.items) <= 10
        /\ \A i, j \in 1..Len(ret.value.parties.items) :
              ret.value.parties.items[i] = ret.value.parties.items[j] => i = j
        /\ Len(ret.value.signatories) <= 5

\* The number of the first "<N> days [prior] notice" phrase of the text,
\* None when there is no such phrase.
FirstNotice(text) ==
    LET match == RxSearch(ToLower(text), notice_pattern, 0)
    IN  IF match.ok THEN Some(ParseDigits(RxGroup(text, match, 1)[1])) ELSE None

\* C17: on the sample contract fixture auto-renewal extraction returns
\* exists = true and notice_period_days = 45; in general notice_period_days
\* is the number of the first "<N> days [prior] notice" phrase of the text.
C17_SampleNoticeIs45 ==
    ExtractReturned =>
        /\ args.full_text = sample_contract =>
              ret.value.auto_renewal
                 = [exists |-> TRUE, notice_period_days |-> Some(45)]
        /\ ret.value.auto_renewal.exists =>
              ret.value.auto_renewal.notice_period_days
                 = FirstNotice(args.full_text)

\* C18: on the sample contract fixture liability-cap extraction returns a
\* liability_cap with amount 100000.0 and currency "USD".
C18_SampleCapIs100000 ==
    (ExtractReturned /\ args.full_text = sample_contract) =>
        ret.value.liability_cap
           = Some([amount |-> Some(100000), currency |-> Some("USD")])

-----------------------------------------------------------------------------
(* RAG answerer: RAGService (app/rag.py).  The embedding of the question   *)
(* and the ranking of the similarity index are the collaborators'; what    *)
(* the index returns is an input of the steps that call it.                *)

\* answer_question's default top_k; /ask passes no other.
top_k == 5

Refusal ==
    "I cannot answer this question as no relevant information was found in the uploaded documents."

\* The n-th smallest element of a set of integers.
Nth(S, n) == CHOOSE x \in S : Cardinality({y \in S : y < x}) = n - 1

\* str.split(sep), sep one character.
SplitOn(t, sep) ==
    LET at == {p \in 1..Len(t) : SubSeq(t, p, p) = sep}
        n == Cardinality(at)
    IN  [k \in 1..(n + 1) |->
            SubSeq(t, IF k = 1 THEN 1 ELSE Nth(at, k - 1) + 1,
                      IF k = n + 1 THEN Len(t) ELSE Nth(at, k) - 1)]

\* set(str.split()): the words between runs of whitespace.
Words(t) ==
    LET starts == {p \in 1..Len(t) :
                      /\ ~IsSpace(SubSeq(t, p, p))
                      /\ p = 1 \/ IsSpace(SubSeq(t, p - 1, p - 1))}
    IN  {SubSeq(t, p, Min({e \in p..Len(t) :
                              e = Len(t) \/ IsSpace(SubSeq(t, e + 1, e + 1))})) :
            p \in starts}

\* sep.join(strs)
RECURSIVE JoinWith(_, _)
JoinWith(strs, sep) ==
    IF strs = << >> THEN ""
    ELSE IF Len(strs) = 1 THEN strs[1]
    ELSE strs[1] \o sep \o JoinWith(Tail(strs), sep)

StopWords == {"what", "when", "where", "who", "how", "is", "are", "the", "a", "an"}

\* The sentences of the context that hold a keyword of the question, the
\* first three of them joined; without any, the head of the context.
_generate_answer_fallback(question, context) ==
    LET question_lower == ToLower(question)
        context_sentences == SplitOn(context, ".")
        question_keywords == Words(question_lower) \ StopWords
        kept == SelectSeq(context_sentences, LAMBDA sentence :
                    \E keyword \in question_keywords :
                        Contains(ToLower(sentence), keyword))
        relevant_sentences == [k \in 1..Len(kept) |-> Strip(kept[k])]
    IN  IF relevant_sentences # << >>
        THEN JoinWith(Take(relevant_sentences, 3), ". ") \o "."
        ELSE Take(context, 500) \o "..."

\* An answerer that lets the failure of the completion call through.
AnswerOrFailure(question, context, completion) ==
    IF completion.raises \/ completion.content = None
    THEN "LLM answer generation failed"
    ELSE Strip(completion.content[1])

\* The completion call returns a message content (None: a message without
\* content, whose strip() raises) or raises; either failure is caught and
\* answered by the fallback.
_generate_answer_with_llm(question, context, completion) ==
    IF completion.raises \/ completion.content = None
    THEN _generate_answer_fallback(question, context)
    ELSE Strip(completion.content[1])

\* "[Document {document_id}, Page {page_number}]:\n{chunk_text}", joined by
\* blank lines.
ContextText(relevant_chunks) ==
    JoinWith([k \in 1..Len(relevant_chunks) |->
                "[Document " \o ToString(relevant_chunks[k].document_id)
                  \o ", Page " \o ToString(relevant_chunks[k].page_number)
                  \o "]:\n" \o relevant_chunks[k].chunk_text],
             "\n\n")

\* The source of one chunk.
SourceOf(chunk) ==
    [document_id |-> chunk.document_id,
     page |-> chunk.page_number,
     char_start |-> chunk.char_start,
     char_end |-> chunk.char_end,
     excerpt |-> Take(chunk.chunk_text, 200)]

\* answer_question from relevant_chunks on: the refusal without chunks,
\* else the answer over the context and one source for each chunk.
AnswerFrom(question, relevant_chunks, use_openai, completion) ==
    IF relevant_chunks = << >>
    THEN [answer |-> Refusal, sources |-> << >>]
    ELSE LET context_text == ContextText(relevant_chunks)
         IN  [answer |->
                 IF use_openai
                 THEN _generate_answer_with_llm(question, context_text,
                                                completion)
                 ELSE _generate_answer_fallback(question, context_text),
              sources |-> [k \in 1..Len(relevant_chunks) |->
                             SourceOf(relevant_chunks[k])]]

-----------------------------------------------------------------------------
(* SpecChunk: PDFExtractor.chunk_text run one loop iteration at a time, on *)
(* drawn page tables, chunk sizes and overlaps.                            *)

MaxSize == 3          \* chunk_size is drawn from 1..MaxSize
MaxLap == 3           \* overlap from 0..MaxLap
MaxIterations == 12   \* iterations of the while loop in one call

\* text[start:end] for any integers: a negative index counts from the end,
\* and both are clipped to the text.
PySlice(t, start, end) ==
    LET Clip(i) == IF i < 0 THEN (IF i + Len(t) < 0 THEN 0 ELSE i + Len(t))
                   ELSE (IF i > Len(t) THEN Len(t) ELSE i)
    IN  IF Clip(start) >= Clip(end) THEN ""
        ELSE SubSeq(t, Clip(start) + 1, Clip(end))

ChunkPageTexts == {"", "a", " \n", "ab c", "abcde"}

\* The page tables chunked: those of PDFs of one and two pages, and a table
\* that does not start at offset 0.
ChunkTables ==
    {extract_text_from_pdf(<<a>>).pages_data : a \in ChunkPageTexts} \cup
    {extract_text_from_pdf(<<a, b>>).pages_data : a, b \in ChunkPageTexts} \cup
    {<<[page_number |-> 3, text |-> "abcd", char_start |-> 7,
        char_end |-> 11]>>}

\* The call's position: the page the for loop is at, the while loop's
\* start, the chunks appended and the iterations made.
ChunkAt(page, start, chunks, n) ==
    [page |-> page, start |-> start, chunks |-> chunks, n |-> n]

InitChunk ==
    /\ renewal_notice_threshold = auto_renewal_notice_days
    /\ liability_threshold = liability_cap_threshold
    /\ \E pages_data \in ChunkTables, size \in 1..MaxSize, lap \in 0..MaxLap :
          args = [op |-> "chunk_text", pages_data |-> pages_data,
                  chunk_size |-> size, overlap |-> lap]
    /\ ret = [done |-> FALSE, value |-> ChunkAt(1, 0, << >>, 0)]
    /\ ServiceAtRest

\* The start of the next iteration, counted from the end of this one.
NextStartBehind(end, lap) == end - lap - 3

\* start = end - overlap
NextStart(end, lap) == end - lap

\* The call is in the while loop of a page and its condition holds.
InLoop ==
    /\ args.op = "chunk_text"
    /\ ~ret.done
    /\ ret.value.page <= Len(args.pages_data)
    /\ ret.value.start < Len(args.pages_data[ret.value.page].text)

\* One iteration of the while loop: the chunk is cut and, unless blank,
\* appended; at the page's end the loop breaks, else it starts again
\* overlap characters before the chunk's end.
ChunkIterate ==
    /\ InLoop
    /\ ret.value.n < MaxIterations
    /\ LET at == ret.value
           page_data == args.pages_data[at.page]
           page_text == page_data.text
           start == at.start
           end == Min({start + args.chunk_size, Len(page_text)})
           chunk == PySlice(page_text, start, end)
           chunks == IF ~Blank(chunk)
                     THEN Append(at.chunks,
                            [chunk_text |-> chunk,
                             page_number |-> page_data.page_number,
                             char_start |-> page_data.char_start + start,
                             char_end |-> page_data.char_start + end])
                     ELSE at.chunks
       IN  ret' = [ret EXCEPT !.value =
                     IF end >= Len(page_text)
                     THEN ChunkAt(at.page + 1, 0, chunks, at.n + 1)
                     ELSE ChunkAt(at.page, NextStart(end, args.overlap),
                                  chunks, at.n + 1)]
    /\ UNCHANGED <<auditor, service, args>>

\* The while condition fails at once: the page has no text.
ChunkSkipPage ==
    /\ args.op = "chunk_text"
    /\ ~ret.done
    /\ ret.value.page <= Len(args.pages_data)
    /\ ~(ret.value.start < Len(args.pages_data[ret.value.page].text))
    /\ ret' = [ret EXCEPT !.value = ChunkAt(@.page + 1, 0, @.chunks, @.n)]
    /\ UNCHANGED <<auditor, service, args>>

\* The for loop is over: return chunks.
ChunkReturn ==
    /\ args.op = "chunk_text"
    /\ ~ret.done
    /\ ret.value.page > Len(args.pages_data)
    /\ ret' = [ret EXCEPT !.done = TRUE]
    /\ UNCHANGED <<auditor, service, args>>

NextChunk == ChunkIterate \/ ChunkSkipPage \/ ChunkReturn

SpecChunk == InitChunk /\ [][NextChunk]_vars

\* The interpreter keeps running the call.
SpecChunkFair == SpecChunk /\ WF_vars(NextChunk)

\* overlap < chunk_size
Converging == args.op = "chunk_text" /\ args.overlap < args.chunk_size

\* overlap >= chunk_size, and a page is longer than chunk_size.
Diverging ==
    /\ args.op = "chunk_text"
    /\ args.overlap >= args.chunk_size
    /\ \E k \in 1..Len(args.pages_data) :
          Len(args.pages_data[k].text) > args.chunk_size

\* The step is an iteration after which the while loop goes on.
Iterated ==
    /\ ret'.value.n = ret.value.n + 1
    /\ ret'.value.page = ret.value.page

\* The chunk lies inside the page it names.
InsideItsPage(chunk) ==
    \E k \in 1..Len(args.pages_data) :
        LET page == args.pages_data[k]
        IN  /\ page.page_number = chunk.page_number
            /\ page.char_start <= chunk.char_start
            /\ chunk.char_start < chunk.char_end
            /\ chunk.char_end <= page.char_start + Len(page.text)

\* C25: with overlap < chunk_size the call of chunk_text returns: every
\* iteration that stays in a page starts further on than the one before,
\* every chunk lies inside the page it names, and the chunks returned are
\* those of chunk_text.  With overlap >= chunk_size and a page longer than
\* chunk_size the call never returns: on such a page the start never
\* moves forward.
C25_ChunkingTerminates ==
    /\ [](Converging =>
            /\ \A i \in 1..Len(ret.value.chunks) :
                  InsideItsPage(ret.value.chunks[i])
            /\ ret.done =>
                  ret.value.chunks = chunk_text("", args.pages_data,
                                         args.chunk_size, args.overlap))
    /\ [][(Converging /\ Iterated) => ret'.value.start > ret.value.start]_vars
    /\ Converging => <>ret.done
    /\ [](Diverging => ~ret.done)
    /\ [][(Diverging /\ Iterated) => ret'.value.start <= ret.value.start]_vars

\* A call with chunk_size 3 and overlap 2 over two pages has returned, with
\* three overlapping chunks of the five characters of its second page.
C25_Witness ==
    /\ args.op = "chunk_text"
    /\ args.chunk_size = 3 /\ args.overlap = 2
    /\ ret.done
    /\ Len(args.pages_data) = 2
    /\ Len(SelectSeq(ret.value.chunks, LAMBDA c : c.page_number = 2)) = 3
    /\ args.pages_data[2].text = "abcde"

-----------------------------------------------------------------------------
(* SpecAnswer: one answer over drawn chunks, by a service with or without  *)
(* a completion capability.                                                *)

ChunkNotice ==
    [document_id |-> 1, page_number |-> 1, char_start |-> 0, char_end |-> 25,
     chunk_text |-> "Notice period is 30 days."]
ChunkFees ==
    [document_id |-> 1, page_number |-> 2, char_start |-> 26, char_end |-> 64,
     chunk_text |-> "Fees are due monthly. Late fees apply."]
ChunkRenewal ==
    [document_id |-> 2, page_number |-> 1, char_start |-> 0, char_end |-> 45,
     chunk_text |-> "Renewal is automatic.\nThe notice goes by mail"]

\* The chunks an answer is made from, as the index ranks them.
AnswerChunks ==
    {<< >>, <<ChunkNotice>>, <<ChunkFees>>, <<ChunkRenewal>>,
     <<ChunkNotice, ChunkFees>>, <<ChunkRenewal, ChunkNotice>>,
     <<ChunkFees, ChunkRenewal, ChunkNotice>>,
     <<ChunkNotice, ChunkFees, ChunkRenewal>>}

AnswerQuestions ==
    {"What is the notice period?", " Is liability limited? ",
     "who pays LATE fees and when is renewal.", "What is the", "fees"}

\* What the completion call may do, and the call of a service that has no
\* completion capability, which is never made.
CompletionOutcomes ==
    {[raises |-> TRUE, content |-> None],
     [raises |-> FALSE, content |-> None],
     [raises |-> FALSE, content |-> Some(" Thirty days. \n")],
     [raises |-> FALSE, content |-> Some("")]}

InitAnswer ==
    /\ renewal_notice_threshold = auto_renewal_notice_days
    /\ liability_threshold = liability_cap_threshold
    /\ \E question \in AnswerQuestions, relevant_chunks \in AnswerChunks,
          use_openai \in BOOLEAN :
          \E completion \in IF use_openai THEN CompletionOutcomes
                            ELSE {[raises |-> TRUE, content |-> None]} :
             args = [op |-> "answer_question", question |-> question,
                     relevant_chunks |-> relevant_chunks,
                     use_openai |-> use_openai, completion |-> completion]
    /\ ret = NoRet
    /\ ServiceAtRest

AnswerCall ==
    /\ args.op = "answer_question"
    /\ ~ret.done
    /\ ret' = Returned(AnswerFrom(args.question, args.relevant_chunks,
                                  args.use_openai, args.completion))
    /\ UNCHANGED <<auditor, service, args>>

NextAnswer == AnswerCall

SpecAnswer == InitAnswer /\ [][NextAnswer]_vars

AnswerReturned == args.op = "answer_question" /\ ret.done

\* C21: with a completion capability configured and chunks to answer
\* from, a completion call that raises, or whose message has no content,
\* is not seen by the caller: answer_question returns the answer of the
\* keyword-overlap fallback for the same question and context, and one
\* source for each chunk.
C21_CompletionFailureFallsBack ==
    (/\ AnswerReturned
     /\ args.use_openai
     /\ args.relevant_chunks # << >>
     /\ args.completion.raises \/ args.completion.content = None)
        => ret.value =
             [answer |-> _generate_answer_fallback(args.question,
                             ContextText(args.relevant_chunks)),
              sources |-> [k \in 1..Len(args.relevant_chunks) |->
                             SourceOf(args.relevant_chunks[k])]]

\* A raising completion call over two chunks, answered with the sentence
\* of the context that holds a word of the question.
C21_Witness ==
    /\ AnswerReturned
    /\ args.use_openai
    /\ args.completion.raises
    /\ args.question = "What is the notice period?"
    /\ args.relevant_chunks = <<ChunkNotice, ChunkFees>>
    /\ ret.value.answer = "[Document 1, Page 1]:\nNotice period is 30 days."
    /\ Len(ret.value.sources) = 2

-----------------------------------------------------------------------------
(* The HTTP service: app/main.py over the storage tables.  A handler runs  *)
(* from one storage call to the next; each call is one step.               *)

MaxRequests == 3    \* requests received in one behaviour

\* file.filename.lower().endswith('.pdf')
IsPdf(filename) ==
    LET l == ToLower(filename)
    IN  Len(l) >= 4 /\ SubSeq(l, Len(l) - 3, Len(l)) = ".pdf"

\* Uploaded files: the name and the pages PyMuPDF reads from the bytes
\* (none: bytes that fitz.open refuses).
FileUnlimited == [filename |-> "unlimited.pdf", pdf |-> <<TextUnlimited>>]
FileLimited ==
    [filename |-> "LIMITED.PDF", pdf |-> <<TextLimited, TextConvenience>>]
FileConvenience ==
    [filename |-> "convenience.pdf", pdf |-> <<TextConvenience, "\n">>]
FileNotes == [filename |-> "notes.txt", pdf |-> << >>]
FileBroken == [filename |-> "broken.pdf", pdf |-> << >>]

\* The uploads a client posts to /ingest.
IngestUploads ==
    { <<FileUnlimited>>,
      <<FileLimited, FileConvenience>>,
      <<FileUnlimited, FileNotes>>,
      <<FileBroken>> }

RemoveAt(seq, i) == SubSeq(seq, 1, i - 1) \o SubSeq(seq, i + 1, Len(seq))

\* .eq(column, value) on a table.
Eq(table, column, value) == SelectSeq(table, LAMBDA row : row[column] = value)

\* A delete that takes every row of the table.
DeleteEvery(table, column, value) == << >>

\* .delete().eq(column, value)
DeleteEq(table, column, value) ==
    SelectSeq(table, LAMBDA row : row[column] # value)

\* .order("page_number")
OrderByPageNumber(rows) ==
    [k \in 1..Len(rows) |->
        rows[CHOOSE j \in 1..Len(rows) :
                Cardinality({m \in 1..Len(rows) :
                    \/ rows[m].page_number < rows[j].page_number
                    \/ rows[m].page_number = rows[j].page_number /\ m < j})
                  = k - 1]]

\* The locals of a handler that has not assigned any yet.
Locals(id, endpoint, pc) ==
    [id |-> id, endpoint |-> endpoint, pc |-> pc,
     files |-> << >>, file_idx |-> 0, document_id |-> 0,
     full_text |-> "", pages_data |-> << >>, page_count |-> 0,
     chunks |-> << >>, idx |-> 0, documents |-> << >>,
     extraction_data |-> EmptyDict, findings |-> << >>,
     extraction_record |-> EmptyDict, existing |-> None,
     question |-> "", document_ids |-> << >>, result_data |-> << >>,
     all_chunks |-> None, relevant_chunks |-> << >>,
     answer |-> "", sources |-> << >>,
     metric_name |-> "", result |-> None]

Response(rq, status, body) ==
    [id |-> rq.id, endpoint |-> rq.endpoint, status |-> status,
     document_id |-> rq.document_id, body |-> body]

\* The handler returns or raises: its response is sent and it is gone.
Respond(i, status, body) ==
    /\ responses' = Append(responses, Response(requests[i], status, body))
    /\ requests' = RemoveAt(requests, i)

Received == Len(responses) + Len(requests)

Init ==
    /\ renewal_notice_threshold = auto_renewal_notice_days
    /\ liability_threshold = liability_cap_threshold
    /\ ServiceAtRest
    /\ args = [op |-> "none"]
    /\ ret = NoRet

\* A client posts to /ingest or /audit while fewer than limit handlers run.
Receive(limit) ==
    /\ Received < MaxRequests
    /\ Len(requests) < limit
    /\ \/ \E files \in IngestUploads :
            requests' = Append(requests,
                [Locals(Received + 1, "ingest", "ingest_file")
                    EXCEPT !.files = files, !.file_idx = 1])
       \/ \E document_id \in 1..(Len(documents) + 1) :
            requests' = Append(requests,
                [Locals(Received + 1, "audit", "select_document")
                    EXCEPT !.document_id = document_id])
    /\ UNCHANGED <<auditor, tables, responses, args, ret>>

\* A client posts to /extract.
ReceiveExtract(limit) ==
    /\ Received < MaxRequests
    /\ Len(requests) < limit
    /\ \E document_id \in 1..(Len(documents) + 1) :
          requests' = Append(requests,
              [Locals(Received + 1, "extract", "extract_select_document")
                  EXCEPT !.document_id = document_id])
    /\ UNCHANGED <<auditor, tables, responses, args, ret>>

\* The questions a client asks: none, blank ones, and two about the stored
\* texts.
Questions ==
    {"", " \n\t ", "What is the notice period?", " Is liability limited? "}

\* The document_ids of an AskRequest: left out (None, which like [] is
\* no filter), a stored document's id, or an id never stored.
DocumentIdFilters == {<< >>, <<1>>, <<Len(documents) + 1>>}

\* A client posts to /ask.
ReceiveAsk(limit) ==
    /\ Received < MaxRequests
    /\ Len(requests) < limit
    /\ \E question \in Questions, document_ids \in DocumentIdFilters :
          requests' = Append(requests,
              [Locals(Received + 1, "ask", "ask_index")
                  EXCEPT !.question = question,
                         !.document_ids = document_ids])
    /\ UNCHANGED <<auditor, tables, responses, args, ret>>

-----------------------------------------------------------------------------
(* POST /ingest *)

\* The file is done: its metadata joins the response, and the loop goes to
\* the next file or leaves for increment_metric.
AfterChunks(rq) ==
    LET file == rq.files[rq.file_idx]
        done == [rq EXCEPT !.documents = Append(@,
                    [document_id |-> rq.document_id,
                     filename |-> file.filename,
                     pages |-> rq.page_count])]
    IN  IF rq.file_idx < Len(rq.files)
        THEN [done EXCEPT !.pc = "ingest_file", !.file_idx = @ + 1]
        ELSE [done EXCEPT !.pc = "metric_select",
                          !.metric_name = "documents_ingested"]

\* The pages are stored: the text is chunked and the chunks come next.
AfterPages(rq) ==
    LET chunks == chunk_text(rq.full_text, rq.pages_data, chunk_size, overlap)
        chunked == [rq EXCEPT !.chunks = chunks, !.idx = 1]
    IN  IF chunks = << >> THEN AfterChunks(chunked)
        ELSE [chunked EXCEPT !.pc = "insert_chunk"]

\* The head of the loop over the files, up to the insert into "documents":
\* a name that is no PDF's ends the request with 400, unreadable bytes end
\* it with 500, and what earlier files stored stays.
IngestInsertDocument(i) ==
    /\ requests[i].pc = "ingest_file"
    /\ LET rq == requests[i]
           file == rq.files[rq.file_idx]
           doc == extract_text_from_pdf(file.pdf)
           document_id == Len(documents) + 1
           read == [rq EXCEPT !.document_id = document_id,
                              !.full_text = doc.full_text,
                              !.pages_data = doc.pages_data,
                              !.page_count = doc.page_count,
                              !.idx = 1]
       IN  IF ~IsPdf(file.filename)
           THEN Respond(i, 400, << >>) /\ UNCHANGED documents
           ELSE IF file.pdf = << >>
           THEN Respond(i, 500, << >>) /\ UNCHANGED documents
           ELSE /\ documents' = Append(documents,
                    [id |-> document_id, filename |-> file.filename,
                     page_count |-> doc.page_count,
                     full_text |-> doc.full_text])
                /\ requests' = [requests EXCEPT ![i] =
                      IF read.pages_data = << >> THEN AfterPages(read)
                      ELSE [read EXCEPT !.pc = "insert_page"]]
                /\ UNCHANGED responses
    /\ UNCHANGED <<auditor, document_pages, document_chunks, extractions,
                   audit_findings, metrics, args, ret>>

IngestInsertPage(i) ==
    /\ requests[i].pc = "insert_page"
    /\ LET rq == requests[i]
           page_data == rq.pages_data[rq.idx]
       IN  /\ document_pages' = Append(document_pages,
                [document_id |-> rq.document_id,
                 page_number |-> page_data.page_number,
                 text |-> page_data.text,
                 char_start |-> page_data.char_start,
                 char_end |-> page_data.char_end])
           /\ requests' = [requests EXCEPT ![i] =
                 IF rq.idx < Len(rq.pages_data)
                 THEN [rq EXCEPT !.idx = @ + 1]
                 ELSE AfterPages(rq)]
    /\ UNCHANGED <<auditor, documents, document_chunks, extractions,
                   audit_findings, metrics, responses, args, ret>>

\* The embedding of a chunk is the embedding service's; no handler here
\* reads it back.
IngestInsertChunk(i) ==
    /\ requests[i].pc = "insert_chunk"
    /\ LET rq == requests[i]
           chunk == rq.chunks[rq.idx]
       IN  /\ document_chunks' = Append(document_chunks,
                [document_id |-> rq.document_id,
                 chunk_text |-> chunk.chunk_text,
                 page_number |-> chunk.page_number,
                 char_start |-> chunk.char_start,
                 char_end |-> chunk.char_end])
           /\ requests' = [requests EXCEPT ![i] =
                 IF rq.idx < Len(rq.chunks)
                 THEN [rq EXCEPT !.idx = @ + 1]
                 ELSE AfterChunks(rq)]
    /\ UNCHANGED <<auditor, documents, document_pages, extractions,
                   audit_findings, metrics, responses, args, ret>>

-----------------------------------------------------------------------------
(* POST /audit *)

\* .maybeSingle(): the one row, or no data.
MaybeSingle(rows) == IF rows = << >> THEN None ELSE Some(rows[1])

\* A row of "audit_findings" as the finding it stores.
FindingOfRow(row) ==
    AuditFinding(row.finding_id, row.severity, row.type, row.summary,
                 row.evidence)

AuditSelectDocument(i) ==
    /\ requests[i].pc = "select_document"
    /\ LET rq == requests[i]
           doc_result == MaybeSingle(Eq(documents, "id", rq.document_id))
       IN  IF doc_result = None
           THEN Respond(i, 404, << >>)
           ELSE /\ requests' = [requests EXCEPT ![i] =
                      [rq EXCEPT !.full_text = doc_result[1].full_text,
                                 !.pc = "select_extraction"]]
                /\ UNCHANGED responses
    /\ UNCHANGED <<auditor, tables, args, ret>>

AuditSelectExtraction(i) ==
    /\ requests[i].pc = "select_extraction"
    /\ LET rq == requests[i]
           extraction_result ==
               MaybeSingle(Eq(extractions, "document_id", rq.document_id))
       IN  requests' = [requests EXCEPT ![i] =
               [rq EXCEPT !.extraction_data =
                              IF extraction_result # None
                              THEN extraction_result[1] ELSE EmptyDict,
                          !.pc = "select_pages"]]
    /\ UNCHANGED <<auditor, tables, responses, args, ret>>

\* The pages are read in page order and the auditor runs on them.
AuditSelectPages(i) ==
    /\ requests[i].pc = "select_pages"
    /\ LET rq == requests[i]
           pages_data == OrderByPageNumber(
               Eq(document_pages, "document_id", rq.document_id))
           findings == audit_contract(rq.full_text, rq.extraction_data,
                                      pages_data, renewal_notice_threshold,
                                      liability_threshold)
       IN  requests' = [requests EXCEPT ![i] =
               [rq EXCEPT !.pages_data = pages_data, !.findings = findings,
                          !.pc = "delete_findings"]]
    /\ UNCHANGED <<auditor, tables, responses, args, ret>>

\* The document's stored findings are left where they are.
AuditKeepFindings(i) ==
    /\ requests[i].pc = "delete_findings"
    /\ requests' = [requests EXCEPT ![i] =
          IF requests[i].findings = << >>
          THEN [@ EXCEPT !.pc = "metric_select", !.metric_name = "audits_run"]
          ELSE [@ EXCEPT !.pc = "insert_finding", !.idx = 1]]
    /\ UNCHANGED <<auditor, tables, responses, args, ret>>

AuditDeleteFindings(i) ==
    /\ requests[i].pc = "delete_findings"
    /\ audit_findings' =
          DeleteEq(audit_findings, "document_id", requests[i].document_id)
    /\ requests' = [requests EXCEPT ![i] =
          IF requests[i].findings = << >>
          THEN [@ EXCEPT !.pc = "metric_select", !.metric_name = "audits_run"]
          ELSE [@ EXCEPT !.pc = "insert_finding", !.idx = 1]]
    /\ UNCHANGED <<auditor, documents, document_pages, document_chunks,
                   extractions, metrics, responses, args, ret>>

AuditInsertFinding(i) ==
    /\ requests[i].pc = "insert_finding"
    /\ LET rq == requests[i]
           finding == rq.findings[rq.idx]
       IN  /\ audit_findings' = Append(audit_findings,
                [document_id |-> rq.document_id,
                 finding_id |-> finding.id,
                 severity |-> finding.severity,
                 type |-> finding.type,
                 summary |-> finding.summary,
                 evidence |-> finding.evidence])
           /\ requests' = [requests EXCEPT ![i] =
                 IF rq.idx < Len(rq.findings)
                 THEN [rq EXCEPT !.idx = @ + 1]
                 ELSE [rq EXCEPT !.pc = "metric_select",
                                 !.metric_name = "audits_run"]]
    /\ UNCHANGED <<auditor, documents, document_pages, document_chunks,
                   extractions, metrics, responses, args, ret>>

-----------------------------------------------------------------------------
(* POST /extract.  The service holds a completion key: use_openai is set,  *)
(* and each extraction's completion call raises or returns some content.   *)

\* What the completion call of an extraction may do.
ServiceCompletions ==
    {CompletionRaises, Completed(ProperResponse), Completed(OnePartyResponse)}

\* A handler that extracts whatever the lookup of the document gives.
ExtractWithoutLookup(i) ==
    /\ requests[i].pc = "extract_select_document"
    /\ requests' = [requests EXCEPT ![i] =
          [@ EXCEPT !.pc = "extract_select_pages"]]
    /\ UNCHANGED <<auditor, tables, responses, args, ret>>

ExtractSelectDocument(i) ==
    /\ requests[i].pc = "extract_select_document"
    /\ LET rq == requests[i]
           doc_result == MaybeSingle(Eq(documents, "id", rq.document_id))
       IN  IF doc_result = None
           THEN Respond(i, 404, << >>)
           ELSE /\ requests' = [requests EXCEPT ![i] =
                      [rq EXCEPT !.full_text = doc_result[1].full_text,
                                 !.pc = "extract_select_pages"]]
                /\ UNCHANGED responses
    /\ UNCHANGED <<auditor, tables, args, ret>>

\* The pages are read in page order, the extractor runs and its result is
\* laid out as the row to store.
ExtractSelectPages(i) ==
    /\ requests[i].pc = "extract_select_pages"
    /\ \E completion \in ServiceCompletions :
          LET rq == requests[i]
              pages_data == OrderByPageNumber(
                  Eq(document_pages, "document_id", rq.document_id))
              extraction == extract_fields(rq.document_id, rq.full_text,
                                           pages_data, TRUE, completion)
          IN  requests' = [requests EXCEPT ![i] =
                  [rq EXCEPT !.pages_data = pages_data,
                             !.extraction_record = extraction,
                             !.pc = "select_existing"]]
    /\ UNCHANGED <<auditor, tables, responses, args, ret>>

\* More than one record of the document is an error of maybeSingle, and
\* the request ends with 500.
ExtractSelectExisting(i) ==
    /\ requests[i].pc = "select_existing"
    /\ LET rq == requests[i]
           rows == Eq(extractions, "document_id", rq.document_id)
       IN  IF Len(rows) > 1
           THEN Respond(i, 500, << >>)
           ELSE /\ requests' = [requests EXCEPT ![i] =
                      [rq EXCEPT !.existing = MaybeSingle(rows),
                                 !.pc = "write_extraction"]]
                /\ UNCHANGED responses
    /\ UNCHANGED <<auditor, tables, args, ret>>

\* An update that keeps the columns a matching row already holds.
UpdateKeeping(table, record, column, value) ==
    [k \in 1..Len(table) |->
        IF table[k][column] = value THEN table[k] @@ record ELSE table[k]]

\* .update(record).eq(column, value): the columns of record are set in
\* every row that matches, the row's other columns stay.
UpdateEq(table, record, column, value) ==
    [k \in 1..Len(table) |->
        IF table[k][column] = value THEN record @@ table[k] ELSE table[k]]

ExtractUpdate(i) ==
    /\ requests[i].pc = "write_extraction"
    /\ requests[i].existing # None
    /\ extractions' = UpdateEq(extractions, requests[i].extraction_record,
                               "document_id", requests[i].document_id)
    /\ requests' = [requests EXCEPT ![i] =
          [@ EXCEPT !.pc = "metric_select",
                    !.metric_name = "extractions_performed"]]
    /\ UNCHANGED <<auditor, documents, document_pages, document_chunks,
                   audit_findings, metrics, responses, args, ret>>

ExtractInsert(i) ==
    /\ requests[i].pc = "write_extraction"
    /\ requests[i].existing = None
    /\ extractions' = Append(extractions, requests[i].extraction_record)
    /\ requests' = [requests EXCEPT ![i] =
          [@ EXCEPT !.pc = "metric_select",
                    !.metric_name = "extractions_performed"]]
    /\ UNCHANGED <<auditor, documents, document_pages, document_chunks,
                   audit_findings, metrics, responses, args, ret>>

-----------------------------------------------------------------------------
(* POST /ask, with RAGService.answer_question step by step *)

\* list[::-1]
Reverse(seq) == [k \in 1..Len(seq) |-> seq[Len(seq) + 1 - k]]

\* The chunks a search may return: those of the documents of document_ids,
\* or all of them when document_ids is None or empty.
ChunksOf(document_ids) ==
    IF document_ids # << >>
    THEN SelectSeq(document_chunks, LAMBDA row :
             \E k \in 1..Len(document_ids) :
                 row.document_id = document_ids[k])
    ELSE document_chunks

\* match_document_chunks and match_document_chunks_all: up to match_count
\* of the stored chunks that pass the filter, in the order of a ranking
\* (here the stored order or its reverse), or nothing.
IndexResults(document_ids, match_count) ==
    LET candidates == ChunksOf(document_ids)
    IN  {<< >>} \cup
        {Take(ranked, m) : ranked \in {candidates, Reverse(candidates)},
                           m \in 1..match_count}

\* The completion call of an answer: it raises, returns a message without
\* content, or returns a content.
AnswerCompletions ==
    {[raises |-> TRUE, content |-> None],
     [raises |-> FALSE, content |-> None],
     [raises |-> FALSE, content |-> Some(" Thirty days. \n")]}

\* The question is checked, then embedded and sent to the index.  An index
\* call that raises ends the request with 500; an empty result sends the
\* handler to the fallback query.
AskIndex(i) ==
    /\ requests[i].pc = "ask_index"
    /\ LET rq == requests[i]
       IN  IF rq.question = "" \/ Strip(rq.question) = ""
           THEN Respond(i, 400, << >>)
           ELSE \/ Respond(i, 500, << >>)
                \/ \E data \in IndexResults(rq.document_ids, top_k) :
                      /\ requests' = [requests EXCEPT ![i] =
                            [rq EXCEPT !.result_data = data,
                                       !.relevant_chunks = data,
                                       !.pc = IF data = << >>
                                              THEN "ask_fallback"
                                              ELSE "ask_answer"]]
                      /\ UNCHANGED responses
    /\ UNCHANGED <<auditor, tables, args, ret>>

\* A fallback query without .limit(top_k).
AskFallbackUnlimited(i) ==
    /\ requests[i].pc = "ask_fallback"
    /\ LET rq == requests[i]
           all_chunks == ChunksOf(rq.document_ids)
       IN  requests' = [requests EXCEPT ![i] =
               [rq EXCEPT !.all_chunks = Some(all_chunks),
                          !.relevant_chunks = all_chunks,
                          !.pc = "ask_answer"]]
    /\ UNCHANGED <<auditor, tables, responses, args, ret>>

\* .select("*") on document_chunks, .in_ the documents asked for,
\* .limit(top_k).  Without any chunk the refusal is the answer and no
\* completion is called.
AskFallback(i) ==
    /\ requests[i].pc = "ask_fallback"
    /\ LET rq == requests[i]
           all_chunks == Take(ChunksOf(rq.document_ids), top_k)
           refused == AnswerFrom(rq.question, << >>, TRUE,
                                 [raises |-> TRUE, content |-> None])
       IN  requests' = [requests EXCEPT ![i] =
               IF all_chunks = << >>
               THEN [rq EXCEPT !.all_chunks = Some(all_chunks),
                               !.answer = refused.answer,
                               !.sources = refused.sources,
                               !.pc = "metric_select",
                               !.metric_name = "queries_answered"]
               ELSE [rq EXCEPT !.all_chunks = Some(all_chunks),
                               !.relevant_chunks = all_chunks,
                               !.pc = "ask_answer"]]
    /\ UNCHANGED <<auditor, tables, responses, args, ret>>

\* The answer is generated over the chunks and the sources are listed.
AskAnswer(i) ==
    /\ requests[i].pc = "ask_answer"
    /\ \E completion \in AnswerCompletions :
          LET rq == requests[i]
              answered == AnswerFrom(rq.question, rq.relevant_chunks, TRUE,
                                     completion)
          IN  requests' = [requests EXCEPT ![i] =
                  [rq EXCEPT !.answer = answered.answer,
                             !.sources = answered.sources,
                             !.pc = "metric_select",
                             !.metric_name = "queries_answered"]]
    /\ UNCHANGED <<auditor, tables, responses, args, ret>>

-----------------------------------------------------------------------------
(* increment_metric (app/database.py), and the handler's return after it *)

\* The read of the counter's row.  More than one row for the name is an
\* error of maybeSingle, and the request ends with 500.
IncrementMetricSelect(i) ==
    /\ requests[i].pc = "metric_select"
    /\ LET rq == requests[i]
           rows == Eq(metrics, "metric_name", rq.metric_name)
       IN  IF Len(rows) > 1
           THEN Respond(i, 500, << >>)
           ELSE /\ requests' = [requests EXCEPT ![i] =
                      [rq EXCEPT !.result = MaybeSingle(rows),
                                 !.pc = "metric_write"]]
                /\ UNCHANGED responses
    /\ UNCHANGED <<auditor, tables, args, ret>>

\* The write of the value read plus one, or the insert of 1; the handler
\* then returns its response.
IncrementMetricWrite(i) ==
    /\ requests[i].pc = "metric_write"
    /\ LET rq == requests[i]
       IN  /\ metrics' =
                IF rq.result # None
                THEN LET current_value == rq.result[1].metric_value
                     IN  [k \in 1..Len(metrics) |->
                            IF metrics[k].metric_name = rq.metric_name
                            THEN [metrics[k] EXCEPT
                                    !.metric_value = current_value + 1]
                            ELSE metrics[k]]
                ELSE Append(metrics, [metric_name |-> rq.metric_name,
                                      metric_value |-> 1])
           /\ Respond(i, 200,
                 CASE rq.endpoint = "ingest" -> rq.documents
                   [] rq.endpoint = "extract" -> rq.extraction_record
                   [] rq.endpoint = "ask" ->
                        [answer |-> rq.answer, sources |-> rq.sources]
                   [] OTHER -> rq.findings)
    /\ UNCHANGED <<auditor, documents, document_pages, document_chunks,
                   extractions, audit_findings, args, ret>>

-----------------------------------------------------------------------------
(* SpecSerial: requests are sent one after another, each when the one     *)
(* before it has been answered.                                            *)

NextSerial ==
    \/ Receive(1)
    \/ \E i \in 1..Len(requests) : IngestInsertDocument(i)
    \/ \E i \in 1..Len(requests) : IngestInsertPage(i)
    \/ \E i \in 1..Len(requests) : IngestInsertChunk(i)
    \/ \E i \in 1..Len(requests) : AuditSelectDocument(i)
    \/ \E i \in 1..Len(requests) : AuditSelectExtraction(i)
    \/ \E i \in 1..Len(requests) : AuditSelectPages(i)
    \/ \E i \in 1..Len(requests) : AuditDeleteFindings(i)
    \/ \E i \in 1..Len(requests) : AuditInsertFinding(i)
    \/ \E i \in 1..Len(requests) : IncrementMetricSelect(i)
    \/ \E i \in 1..Len(requests) : IncrementMetricWrite(i)

SpecSerial == Init /\ [][NextSerial]_vars

-----------------------------------------------------------------------------
(* SpecService: as SpecSerial, with /extract and /ask among the requests. *)

NextService ==
    \/ Receive(1)
    \/ ReceiveExtract(1)
    \/ ReceiveAsk(1)
    \/ \E i \in 1..Len(requests) : IngestInsertDocument(i)
    \/ \E i \in 1..Len(requests) : IngestInsertPage(i)
    \/ \E i \in 1..Len(requests) : IngestInsertChunk(i)
    \/ \E i \in 1..Len(requests) : ExtractSelectDocument(i)
    \/ \E i \in 1..Len(requests) : ExtractSelectPages(i)
    \/ \E i \in 1..Len(requests) : ExtractSelectExisting(i)
    \/ \E i \in 1..Len(requests) : ExtractUpdate(i)
    \/ \E i \in 1..Len(requests) : ExtractInsert(i)
    \/ \E i \in 1..Len(requests) : AskIndex(i)
    \/ \E i \in 1..Len(requests) : AskFallback(i)
    \/ \E i \in 1..Len(requests) : AskAnswer(i)
    \/ \E i \in 1..Len(requests) : AuditSelectDocument(i)
    \/ \E i \in 1..Len(requests) : AuditSelectExtraction(i)
    \/ \E i \in 1..Len(requests) : AuditSelectPages(i)
    \/ \E i \in 1..Len(requests) : AuditDeleteFindings(i)
    \/ \E i \in 1..Len(requests) : AuditInsertFinding(i)
    \/ \E i \in 1..Len(requests) : IncrementMetricSelect(i)
    \/ \E i \in 1..Len(requests) : IncrementMetricWrite(i)

SpecService == Init /\ [][NextService]_vars

-----------------------------------------------------------------------------
(* SpecAsk: questions to a store without chunks, and to one that holds    *)
(* more chunks than an answer takes.                                       *)

FileTerms ==
    [filename |-> "terms.pdf",
     pdf |-> <<"Notice period is 30 days.", "Fees are due monthly.",
               "Liability is limited to fees.">>]
FileRenewal ==
    [filename |-> "renewal.pdf",
     pdf |-> <<"Renewal is automatic.", "Either party may assign.",
               "Notices go by mail.">>]

\* A client uploads the two files, three pages and so three chunks each,
\* to the empty store.
ReceiveSixChunks ==
    /\ Received < MaxRequests
    /\ requests = << >>
    /\ documents = << >>
    /\ requests' = Append(requests,
          [Locals(Received + 1, "ingest", "ingest_file")
              EXCEPT !.files = <<FileTerms, FileRenewal>>, !.file_idx = 1])
    /\ UNCHANGED <<auditor, tables, responses, args, ret>>

NextAsk ==
    \/ ReceiveSixChunks
    \/ ReceiveAsk(1)
    \/ \E i \in 1..Len(requests) : IngestInsertDocument(i)
    \/ \E i \in 1..Len(requests) : IngestInsertPage(i)
    \/ \E i \in 1..Len(requests) : IngestInsertChunk(i)
    \/ \E i \in 1..Len(requests) : AskIndex(i)
    \/ \E i \in 1..Len(requests) : AskFallback(i)
    \/ \E i \in 1..Len(requests) : AskAnswer(i)
    \/ \E i \in 1..Len(requests) : IncrementMetricSelect(i)
    \/ \E i \in 1..Len(requests) : IncrementMetricWrite(i)

SpecAsk == Init /\ [][NextAsk]_vars

-----------------------------------------------------------------------------
(* SpecPair: two documents are ingested, then /extract and /audit requests *)
(* on them run with their storage steps interleaved, at most one request   *)
(* on each document at a time.                                             *)

MaxInterleaved == 3    \* requests received after the ingestion

\* The requests in progress on document d.
RequestsOn(reqs, d) ==
    SelectSeq(reqs, LAMBDA rq : rq.endpoint # "ingest" /\ rq.document_id = d)

\* Two one-page contracts: one with a liability cap for the extractor to
\* find and the auditor to judge, one without.
FileCapped == [filename |-> "capped.pdf", pdf |-> <<TextLimited>>]
FileFees == [filename |-> "fees.pdf", pdf |-> <<"Fees are due.">>]
PairFiles == <<FileCapped, FileFees>>

\* A client uploads the two documents.
ReceiveTwoDocuments ==
    /\ Received = 0
    /\ requests' = Append(requests,
          [Locals(1, "ingest", "ingest_file")
              EXCEPT !.files = PairFiles, !.file_idx = 1])
    /\ UNCHANGED <<auditor, tables, responses, args, ret>>

\* A client posts to /extract or /audit for a document no request is
\* working on, possibly while a request on the other document runs.
ReceiveOn ==
    /\ Len(documents) = 2
    /\ \A k \in 1..Len(requests) : requests[k].endpoint # "ingest"
    /\ Received < 1 + MaxInterleaved
    /\ \E document_id \in 1..2 :
          /\ RequestsOn(requests, document_id) = << >>
          /\ \/ requests' = Append(requests,
                   [Locals(Received + 1, "extract", "extract_select_document")
                       EXCEPT !.document_id = document_id])
             \/ requests' = Append(requests,
                   [Locals(Received + 1, "audit", "select_document")
                       EXCEPT !.document_id = document_id])
    /\ UNCHANGED <<auditor, tables, responses, args, ret>>

NextPair ==
    \/ ReceiveTwoDocuments
    \/ ReceiveOn
    \/ \E i \in 1..Len(requests) : IngestInsertDocument(i)
    \/ \E i \in 1..Len(requests) : IngestInsertPage(i)
    \/ \E i \in 1..Len(requests) : IngestInsertChunk(i)
    \/ \E i \in 1..Len(requests) : ExtractSelectDocument(i)
    \/ \E i \in 1..Len(requests) : ExtractSelectPages(i)
    \/ \E i \in 1..Len(requests) : ExtractSelectExisting(i)
    \/ \E i \in 1..Len(requests) : ExtractUpdate(i)
    \/ \E i \in 1..Len(requests) : ExtractInsert(i)
    \/ \E i \in 1..Len(requests) : AuditSelectDocument(i)
    \/ \E i \in 1..Len(requests) : AuditSelectExtraction(i)
    \/ \E i \in 1..Len(requests) : AuditSelectPages(i)
    \/ \E i \in 1..Len(requests) : AuditDeleteFindings(i)
    \/ \E i \in 1..Len(requests) : AuditInsertFinding(i)
    \/ \E i \in 1..Len(requests) : IncrementMetricSelect(i)
    \/ \E i \in 1..Len(requests) : IncrementMetricWrite(i)

SpecPair == Init /\ [][NextPair]_vars

-----------------------------------------------------------------------------
(* Claims about stored findings (SpecSerial) *)

\* The completed /audit requests on document d, in order of completion.
AuditsCompleted(d) ==
    SelectSeq(responses, LAMBDA p :
        p.endpoint = "audit" /\ p.status = 200 /\ p.document_id = d)

\* The findings stored for document d.
StoredFindings(d) ==
    LET rows == Eq(audit_findings, "document_id", d)
    IN  [k \in 1..Len(rows) |-> FindingOfRow(rows[k])]

\* C1: once the /audit requests on a document, run one after another, have
\* completed, the findings stored for the document are exactly the findings
\* the last of them returned; nothing of earlier runs is left.
C1_RerunReplacesFindings ==
    requests = << >> =>
        \A d \in 1..Len(documents) :
            LET done == AuditsCompleted(d)
            IN  done # << >> => StoredFindings(d) = done[Len(done)].body

\* A document audited twice, each run returning two findings, with exactly
\* the two of the second run stored.
C1_Witness ==
    /\ requests = << >>
    /\ \E d \in 1..Len(documents) :
          LET done == AuditsCompleted(d)
          IN  /\ Len(done) >= 2
              /\ Len(done[1].body) = 2
              /\ Len(done[Len(done)].body) = 2
              /\ StoredFindings(d) = done[Len(done)].body
-----------------------------------------------------------------------------
(* Claims about stored extraction records (SpecService) *)

\* The completed /extract requests on document d, in order of completion.
ExtractsCompleted(d) ==
    SelectSeq(responses, LAMBDA p :
        p.endpoint = "extract" /\ p.status = 200 /\ p.document_id = d)

\* The extraction records stored for document d.
StoredExtractions(d) == Eq(extractions, "document_id", d)

\* C15: once the /extract requests on a document, run one after another,
\* have completed, the store holds exactly one extraction record for the
\* document, and it is field for field the result of the last of them:
\* nothing of an earlier record is left and no second record is inserted.
C15_ReextractionReplaces ==
    requests = << >> =>
        \A d \in 1..Len(documents) :
            LET done == ExtractsCompleted(d)
            IN  done # << >> =>
                    StoredExtractions(d) = << done[Len(done)].body >>

\* A document extracted twice, the first result with a term and parties
\* from the completion, the second without, and the second one stored.
C15_Witness ==
    /\ requests = << >>
    /\ \E d \in 1..Len(documents) :
          LET done == ExtractsCompleted(d)
          IN  /\ Len(done) = 2
              /\ done[1].body.term # PyNone
              /\ done[1].body.parties # PyStrs(<< >>)
              /\ done[2].body.term = PyNone
              /\ done[2].body.parties = PyStrs(<< >>)
              /\ StoredExtractions(d) = << done[2].body >>
-----------------------------------------------------------------------------
(* Claims about rejected requests (SpecService) *)

\* The request has the caller's error in it: a document id that is not
\* stored, or a question that is empty or only whitespace.
InputError(rq) ==
    \/ /\ rq.endpoint \in {"extract", "audit"}
       /\ Eq(documents, "id", rq.document_id) = << >>
    \/ /\ rq.endpoint = "ask"
       /\ Strip(rq.question) = ""

\* The handler is where it started and has assigned no local: it has
\* called neither the extractor, the auditor nor the RAG service.
Untouched(rq) ==
    /\ rq.pc \in {"extract_select_document", "select_document", "ask_index"}
    /\ rq = [Locals(rq.id, rq.endpoint, rq.pc)
                EXCEPT !.document_id = rq.document_id,
                       !.question = rq.question,
                       !.document_ids = rq.document_ids]

\* C19: a request with a caller's error is rejected by the first step of
\* its handler: /extract and /audit on a document id that is not stored
\* with 404, /ask with an empty or whitespace-only question with 400; the
\* handler has called nothing before, and the step leaves every table,
\* the metric counters among them, as it was.
C19_InputErrorsRejected ==
    [][\A i \in 1..Len(requests) :
          LET rq == requests[i]
          IN  InputError(rq) =>
                /\ Untouched(rq)
                /\ requests' # requests =>
                      /\ responses' = Append(responses,
                            Response(rq, IF rq.endpoint = "ask" THEN 400
                                         ELSE 404, << >>))
                      /\ requests' = RemoveAt(requests, i)
                      /\ tables' = tables]_vars

\* A stored document, and after its ingestion an /extract on an unknown id
\* answered 404 and a blank question answered 400, with no record, no
\* finding and no counter but the ingestion's.
C19_Witness ==
    /\ documents # << >>
    /\ \E j, k \in 1..Len(responses) :
          /\ responses[j].endpoint \in {"extract", "audit"}
          /\ responses[j].status = 404
          /\ responses[k].endpoint = "ask" /\ responses[k].status = 400
    /\ extractions = << >> /\ audit_findings = << >>
    /\ metrics = << [metric_name |-> "documents_ingested", metric_value |-> 1] >>
-----------------------------------------------------------------------------
(* Claims about requests on different documents (SpecPair) *)

\* The two documents as /ingest stores them: text and rows of pages.
PairText == [d \in 1..2 |-> extract_text_from_pdf(PairFiles[d].pdf).full_text]

PairPages ==
    [d \in 1..2 |->
        LET pages_data == extract_text_from_pdf(PairFiles[d].pdf).pages_data
        IN  [k \in 1..Len(pages_data) |->
                [document_id |-> d,
                 page_number |-> pages_data[k].page_number,
                 text |-> pages_data[k].text,
                 char_start |-> pages_data[k].char_start,
                 char_end |-> pages_data[k].char_end]]]

\* What /extract can store for document d when no other request runs.
SoloRecords ==
    [d \in 1..2 |->
        {extract_fields(d, PairText[d], PairPages[d], TRUE, completion) :
            completion \in ServiceCompletions}]

\* What /audit can store for document d when no other request runs: the
\* findings over no record or over one of the document's own records.
SoloFindings ==
    [d \in 1..2 |->
        {audit_contract(PairText[d], extraction_data, PairPages[d],
                        auto_renewal_notice_days, liability_cap_threshold) :
            extraction_data \in {EmptyDict} \cup SoloRecords[d]}]

\* A request on document d holds in its locals only what is stored for d.
OwnData(rq) ==
    LET d == rq.document_id
    IN  /\ rq.full_text \in {"", PairText[d]}
        /\ rq.pages_data \in {<< >>, PairPages[d]}
        /\ rq.extraction_data \in {EmptyDict} \cup SoloRecords[d]
        /\ rq.existing \in {None} \cup {Some(r) : r \in SoloRecords[d]}
        /\ rq.extraction_record \in {EmptyDict} \cup SoloRecords[d]
        /\ rq.findings \in {<< >>} \cup SoloFindings[d]

\* Between requests on d, what is stored for d is what requests on d
\* alone can leave: at most one record, and the findings of one audit.
SoloOutcome(d) ==
    /\ StoredExtractions(d) \in
          {<< >>} \cup {<< r >> : r \in SoloRecords[d]}
    /\ RequestsOn(requests, d) = << >> =>
          StoredFindings(d) \in {<< >>} \cup SoloFindings[d]

\* A step changes the records or findings of d only if it is a step of a
\* request on d.
OwnWrites(d) ==
    (\/ Eq(extractions', "document_id", d) # Eq(extractions, "document_id", d)
     \/ Eq(audit_findings', "document_id", d)
          # Eq(audit_findings, "document_id", d))
        => RequestsOn(requests', d) # RequestsOn(requests, d)

\* C16: with the storage steps of /extract and /audit requests on two
\* documents interleaved in every way, a request reads only the text,
\* pages and record of its own document, a step writes or deletes records
\* and findings of a document only on behalf of a request on it, and what
\* is stored for each document is what its own requests alone can leave.
C16_DocumentsIndependent ==
    /\ [](\A i \in 1..Len(requests) :
            requests[i].endpoint # "ingest" => OwnData(requests[i]))
    /\ [](\A d \in 1..Len(documents) : SoloOutcome(d))
    /\ [][\A d \in 1..Len(documents) : OwnWrites(d)]_vars

\* A request on each document, both in progress: the audit of the first
\* document has read the document's record and stored its findings, the
\* request on the second has read its own pages.
C16_Witness ==
    /\ Len(requests) = 2
    /\ \E i, j \in 1..2 :
          /\ requests[i].document_id = 1 /\ requests[j].document_id = 2
          /\ requests[i].endpoint = "audit"
          /\ requests[i].pc = "metric_select"
          /\ requests[i].extraction_data \in SoloRecords[1]
          /\ requests[j].pages_data = PairPages[2]
    /\ StoredExtractions(1) # << >>
    /\ StoredFindings(1) # << >>

-----------------------------------------------------------------------------
(* Claims about the metric counters (SpecPair) *)

\* The /audit requests answered with 200.
AuditsSucceeded ==
    SelectSeq(responses, LAMBDA p : p.endpoint = "audit" /\ p.status = 200)

\* The rows of table "metrics" that count the audits.
AuditsRunRows == Eq(metrics, "metric_name", "audits_run")

\* C26: when every request has been answered, however the counter's reads
\* and writes were interleaved, the audits answered with 200 are counted
\* one each: there is no row for audits_run when there were none, and
\* otherwise exactly one row, whose value is their number.
C26_EveryAuditCounted ==
    requests = << >> =>
        IF AuditsSucceeded = << >>
        THEN AuditsRunRows = << >>
        ELSE /\ Len(AuditsRunRows) = 1
             /\ AuditsRunRows[1].metric_value = Len(AuditsSucceeded)

-----------------------------------------------------------------------------
(* Claims about answers (SpecAsk) *)

\* answer_question has returned to the /ask handler.
Answered(rq) == rq.endpoint = "ask" /\ rq.pc = "metric_select"

\* The chunks the answer was made from: the index's, or the fallback's.
ChunksUsed(rq) ==
    IF rq.result_data # << >> THEN rq.result_data
    ELSE IF rq.all_chunks # None THEN rq.all_chunks[1]
    ELSE << >>

\* C20: answer_question returns the refusal message with no sources
\* exactly when the index and the fallback query both gave no chunk;
\* otherwise it returns one source for each chunk used, in the chunks'
\* order and at most top_k of them; and the fallback query is made only
\* after an index call that gave nothing.
C20_RefusalAndSources ==
    \A i \in 1..Len(requests) :
        LET rq == requests[i]
            used == ChunksUsed(rq)
        IN  /\ rq.all_chunks # None => rq.result_data = << >>
            /\ Answered(rq) =>
                  /\ (rq.answer = Refusal /\ rq.sources = << >>)
                        <=> (rq.result_data = << >>
                               /\ rq.all_chunks = Some(<< >>))
                  /\ Len(rq.sources) = Len(used)
                  /\ Len(rq.sources) <= top_k
                  /\ \A k \in 1..Len(used) :
                        rq.sources[k] =
                          [document_id |-> used[k].document_id,
                           page |-> used[k].page_number,
                           char_start |-> used[k].char_start,
                           char_end |-> used[k].char_end,
                           excerpt |-> Take(used[k].chunk_text, 200)]

\* Six chunks are stored, the index gave nothing, and the answer has the
\* five sources of the first five chunks.
C20_Witness ==
    /\ Len(document_chunks) = 6
    /\ \E i \in 1..Len(requests) :
          /\ Answered(requests[i])
          /\ requests[i].result_data = << >>
          /\ requests[i].all_chunks = Some(Take(document_chunks, top_k))
          /\ Len(requests[i].sources) = top_k
          /\ requests[i].answer # Refusal
=============================================================================
